---- MODULE Spec2Model ----
(***************************************************************************)
(* A model of the CPU rasterizer of Rust-3D-Renderer: the math kernel      *)
(* (src/src/math), the Renderer (src/src/renderer.rs) and the Scene render *)
(* pass (src/src/scene.rs).                                                *)
(*                                                                         *)
(* f32 values are modelled as exact numbers  n / (d * 10^e)  written       *)
(* <<n, d, e>> with d > 0, extended with the three IEEE-754 specials the   *)
(* code can produce by dividing by zero: <<0,0,0>> is NaN, <<1,0,0>> is    *)
(* +Inf and <<-1,0,0>> is -Inf.  The operations on these values (FAdd,     *)
(* FMul, ...) do not round; the f32 operations that round (F32Add,         *)
(* F32Mul, ...) follow them.                                               *)
(***************************************************************************)
EXTENDS Integers, Sequences, FiniteSets, TLC

(***************************************************************************)
(* f32 arithmetic                                                          *)
(***************************************************************************)
\* Rust evaluates a `let` and an argument once, where it is written; a
\* definition here is evaluated wherever it is used.  Let is F of the value of
\* x, Strict is `body` once x has been evaluated, Value is x evaluated
Let(x, F(_)) == CASE x = x -> F(x)

Let2(x, y, F(_, _)) == CASE x = x /\ y = y -> F(x, y)

Let3(x, y, z, F(_, _, _)) == CASE x = x /\ y = y /\ z = z -> F(x, y, z)

Strict(x, body) == CASE x = x -> body

Value(x) == CASE x = x -> x

Abs(i) == IF i < 0 THEN -i ELSE i

Sgn(i) == IF i < 0 THEN -1 ELSE IF i = 0 THEN 0 ELSE 1

RECURSIVE GCD(_, _)
GCD(a, b) == IF b = 0 THEN a ELSE IF a % b = 0 THEN b ELSE GCD(a % b, b % (a % b))

RECURSIVE Pow10(_)
Pow10(k) == IF k <= 0 THEN 1 ELSE 10 * Pow10(k - 1)

NaN == <<0, 0, 0>>

PosInf == <<1, 0, 0>>

NegInf == <<-1, 0, 0>>

Zero == <<0, 1, 0>>

One == <<1, 1, 0>>

IsNaN(a) == a[2] = 0 /\ a[1] = 0

IsInf(a) == a[2] = 0 /\ a[1] # 0

IsFinite(a) == a[2] > 0

\* the canonical form of n / (d * 10^e), d # 0
Cancel(n, d, e, g) == <<Sgn(d) * (n \div g), Abs(d) \div g, e>>

Norm(n, d, e) == IF n = 0 THEN Zero ELSE Cancel(n, d, e, GCD(Abs(n), Abs(d)))

\* an integer, and a fraction, as f32 values
I(n) == <<n, 1, 0>>

Q(n, d) == Norm(n, d, 0)

FNeg(a) == <<-a[1], a[2], a[3]>>

FAbs(a) == <<Abs(a[1]), a[2], a[3]>>

\* the product of two finite non-zero values, g1 and g2 being the common
\* factors of either numerator with the other denominator
CrossCancel(a, b, g1, g2) ==
    <<(a[1] \div g1) * (b[1] \div g2), (a[2] \div g2) * (b[2] \div g1), a[3] + b[3]>>

FMul(a, b) ==
    IF IsNaN(a) \/ IsNaN(b) THEN NaN
    ELSE IF IsInf(a) \/ IsInf(b)
         THEN IF a[1] = 0 \/ b[1] = 0 THEN NaN
              ELSE <<Sgn(a[1]) * Sgn(b[1]), 0, 0>>
    ELSE IF a[1] = 0 \/ b[1] = 0 THEN Zero
    ELSE CrossCancel(a, b, GCD(Abs(a[1]), b[2]), GCD(Abs(b[1]), a[2]))

FDiv(a, b) ==
    IF IsNaN(a) \/ IsNaN(b) THEN NaN
    ELSE IF IsInf(a)
         THEN IF IsInf(b) THEN NaN
              ELSE <<Sgn(a[1]) * (IF b[1] < 0 THEN -1 ELSE 1), 0, 0>>
    ELSE IF IsInf(b) THEN Zero
    ELSE IF b[1] = 0
         THEN IF a[1] = 0 THEN NaN ELSE <<Sgn(a[1]), 0, 0>>
    ELSE FMul(a, <<Sgn(b[1]) * b[2], Abs(b[1]), -b[3]>>)

\* the sum of two finite non-zero values, e being the larger of their
\* exponents and g the common factor of their denominators
CommonDenominator(a, b, e, g) ==
    Norm(a[1] * Pow10(e - a[3]) * (b[2] \div g) + b[1] * Pow10(e - b[3]) * (a[2] \div g),
         (a[2] \div g) * b[2], e)

FAdd(a, b) ==
    IF IsNaN(a) \/ IsNaN(b) THEN NaN
    ELSE IF IsInf(a)
         THEN IF IsInf(b) /\ a[1] # b[1] THEN NaN ELSE a
    ELSE IF IsInf(b) THEN b
    ELSE IF a[1] = 0 THEN b
    ELSE IF b[1] = 0 THEN a
    ELSE CommonDenominator(a, b, IF a[3] > b[3] THEN a[3] ELSE b[3], GCD(a[2], b[2]))

FSub(a, b) == FAdd(a, FNeg(b))

\* x < y * 10^k and x <= y * 10^k for positive integers, without forming 10^k
RECURSIVE LtScaled(_, _, _)
LtScaled(x, y, k) ==
    IF x < y THEN TRUE ELSE IF k = 0 THEN FALSE ELSE LtScaled(x, y * 10, k - 1)

RECURSIVE LeScaled(_, _, _)
LeScaled(x, y, k) ==
    IF x <= y THEN TRUE ELSE IF k = 0 THEN FALSE ELSE LeScaled(x, y * 10, k - 1)

\* n1 / d1 < n2 / d2 for non-negative n1, n2 and positive d1, d2, by comparing
\* the integer parts and then the reciprocals of the fractional parts
RECURSIVE RatLt(_, _, _, _)
RatLt(n1, d1, n2, d2) ==
    LET q1 == n1 \div d1
        q2 == n2 \div d2
        r1 == n1 % d1
        r2 == n2 % d2
    IN  IF q1 # q2 THEN q1 < q2
        ELSE IF r2 = 0 THEN FALSE
        ELSE IF r1 = 0 THEN TRUE
        ELSE RatLt(d2, r2, d1, r1)

\* |a| < |b| for finite non-zero a and b
MagLt(a, b) ==
    IF a[3] = b[3] THEN RatLt(Abs(a[1]), a[2], Abs(b[1]), b[2])
    ELSE LET x == Abs(a[1]) * b[2]
             y == Abs(b[1]) * a[2]
         IN  IF a[3] >= b[3] THEN LtScaled(x, y, a[3] - b[3])
             ELSE ~LeScaled(y, x, b[3] - a[3])

\* the comparisons of IEEE-754: every comparison with NaN is false
FLt(a, b) ==
    IF IsNaN(a) \/ IsNaN(b) THEN FALSE
    ELSE IF IsInf(a) \/ IsInf(b)
         THEN IF IsInf(a) /\ IsInf(b) THEN a[1] < b[1]
              ELSE IF IsInf(a) THEN a[1] < 0 ELSE b[1] > 0
    ELSE IF Sgn(a[1]) # Sgn(b[1]) THEN Sgn(a[1]) < Sgn(b[1])
    ELSE IF a[1] = 0 THEN FALSE
    ELSE IF a[1] > 0 THEN MagLt(a, b) ELSE MagLt(b, a)

FEq(a, b) ==
    IF IsNaN(a) \/ IsNaN(b) THEN FALSE
    ELSE IF IsInf(a) \/ IsInf(b) THEN a = b
    ELSE ~FLt(a, b) /\ ~FLt(b, a)

FGt(a, b) == FLt(b, a)

FLe(a, b) == FLt(a, b) \/ FEq(a, b)

FGe(a, b) == FLe(b, a)

\* f32::min and f32::max: a NaN operand is ignored
FMin(a, b) == IF IsNaN(a) THEN b ELSE IF IsNaN(b) THEN a ELSE IF FLt(b, a) THEN b ELSE a

FMax(a, b) == IF IsNaN(a) THEN b ELSE IF IsNaN(b) THEN a ELSE IF FLt(a, b) THEN b ELSE a

\* the value of a finite number with e = 0 rounded towards -infinity / +infinity
FloorInt(a) == a[1] \div a[2]

CeilInt(a) == -((-a[1]) \div a[2])

\* the largest integer whose square is at most n, searched between lo and hi
RECURSIVE ISqrtIn(_, _, _)
ISqrtIn(n, lo, hi) ==
    IF lo >= hi THEN lo
    ELSE LET mid == (lo + hi + 1) \div 2
         IN  IF mid * mid <= n THEN ISqrtIn(n, mid, hi) ELSE ISqrtIn(n, lo, mid - 1)

\* 46340 is the largest integer whose square is below 2^31
ISqrt(n) == ISqrtIn(n, 0, IF n < 46340 THEN n ELSE 46340)

IsSquare(n) == ISqrt(n) * ISqrt(n) = n

\* <<r * s \div d, r * s % d>> for 0 <= r < d, without forming an r * s that
\* is 2^31 or more
RECURSIVE MulDivMod(_, _, _)
MulDivMod(r, s, d) ==
    IF s = 0 THEN <<0, 0>>
    ELSE IF r <= 2147483647 \div s THEN <<(r * s) \div d, (r * s) % d>>
    ELSE Let(MulDivMod(r, s \div 2, d), LAMBDA h :
             LET t == 2 * h[2] + (s % 2) * r
             IN  <<2 * h[1] + (t \div d), t % d>>)

\* the largest integer that is at most a * s, for a finite a and an integer s > 0
FloorScaled(a, s) ==
    LET d == a[2] * Pow10(a[3])
    IN  (a[1] \div d) * s + MulDivMod(a[1] % d, s, d)[1]

\* a rounded to the nearest multiple of 1 / s, a tie away from zero: as in
\* f32, the rounding of -a is minus the rounding of a
RoundMagnitude(a, s) == Norm((FloorScaled(a, 2 * s) + 1) \div 2, s, 0)

RoundTo(a, s) ==
    IF ~IsFinite(a) THEN a
    ELSE IF a[1] < 0 THEN FNeg(RoundMagnitude(FNeg(a), s))
    ELSE RoundMagnitude(a, s)

\* the resolution of a square root that is not rational: 1 / SqrtScale
SqrtScale == 256

\* f32::sqrt: exact where the root is rational, otherwise rounded down to a
\* multiple of 1 / SqrtScale; NaN for a negative number
FSqrt(a) ==
    IF IsNaN(a) THEN NaN
    ELSE IF IsInf(a) THEN (IF a[1] > 0 THEN PosInf ELSE NaN)
    ELSE IF a[1] < 0 THEN NaN
    ELSE IF a[1] = 0 THEN Zero
    ELSE IF a[3] % 2 = 0 /\ IsSquare(a[1]) /\ IsSquare(a[2])
         THEN <<ISqrt(a[1]), ISqrt(a[2]), a[3] \div 2>>
    ELSE Norm(ISqrt(FloorScaled(a, SqrtScale * SqrtScale)), SqrtScale, 0)

\* the resolution of a power that is not kept exactly: 1 / PowScale
PowScale == 4096

\* a itself while its denominator is at most PowScale, otherwise rounded
Tame(a) == IF IsFinite(a) /\ (a[2] > PowScale \/ a[3] # 0) THEN RoundTo(a, PowScale) ELSE a

\* a to the power n for an integer n >= 0, by repeated squaring
RECURSIVE FPowi(_, _)
FPowi(a, n) ==
    IF n = 0 THEN One
    ELSE IF n % 2 = 0 THEN Let(FPowi(a, n \div 2), LAMBDA h : Tame(FMul(h, h)))
    ELSE Tame(FMul(Tame(a), FPowi(a, n - 1)))

\* f32::powf for the exponents the code passes, which are whole numbers
FPowf(a, y) == Strict(<<a, y>>, FPowi(a, FloorInt(y)))

\* pi, and the resolution of the sines and cosines: 1 / TrigScale
PI == Norm(355, 113, 0)

TrigScale == 64

\* the resolution of the series the sines and cosines are summed with
TrigFine == TrigScale * 64

\* an angle brought into -pi .. pi, as a multiple of 1 / TrigFine
ReduceAngle(a) ==
    Let(FMul(I(2), PI), LAMBDA two_pi :
        LET turns == FloorScaled(FAdd(FDiv(a, two_pi), Q(1, 2)), 1)
        IN  FloorScaled(FSub(a, FMul(I(turns), two_pi)), TrigFine))

\* TrigFine - x2 * t / (k * TrigFine): one factor of the nested series
SeriesStep(x2, t, k) == TrigFine - ((x2 * t) \div (k * TrigFine))

\* a multiple of 1 / TrigFine rounded to a multiple of 1 / TrigScale in -1 .. 1
TrigRound(v) ==
    LET r == (2 * v * TrigScale + TrigFine) \div (2 * TrigFine)
    IN  Norm(IF r > TrigScale THEN TrigScale ELSE IF r < -TrigScale THEN -TrigScale ELSE r,
             TrigScale, 0)

\* f32::sin and f32::cos, summed to the term in x^13 and x^12
FSin(a) ==
    IF ~IsFinite(a) THEN NaN
    ELSE Let(ReduceAngle(a), LAMBDA x :
         Let((x * x) \div TrigFine, LAMBDA x2 :
             LET t6 == SeriesStep(x2, TrigFine, 156)
                 t5 == SeriesStep(x2, t6, 110)
                 t4 == SeriesStep(x2, t5, 72)
                 t3 == SeriesStep(x2, t4, 42)
                 t2 == SeriesStep(x2, t3, 20)
                 t1 == SeriesStep(x2, t2, 6)
             IN  TrigRound((x * t1) \div TrigFine)))

FCos(a) ==
    IF ~IsFinite(a) THEN NaN
    ELSE Let(ReduceAngle(a), LAMBDA x :
         Let((x * x) \div TrigFine, LAMBDA x2 :
             LET t6 == SeriesStep(x2, TrigFine, 132)
                 t5 == SeriesStep(x2, t6, 90)
                 t4 == SeriesStep(x2, t5, 56)
                 t3 == SeriesStep(x2, t4, 30)
                 t2 == SeriesStep(x2, t3, 12)
             IN  TrigRound(SeriesStep(x2, t2, 2))))

FTan(a) == FDiv(FSin(a), FCos(a))

\* f32::acos on 0 .. 1: sqrt(1 - x) * (c0 + c1*x + c2*x^2 + c3*x^3), the
\* coefficients in units of 1 / 10000
AcosUnit(x) ==
    Let(FloorScaled(x, TrigFine), LAMBDA xf :
        LET p2 == 743 + ((-187 * xf) \div TrigFine)
            p1 == -2121 + ((p2 * xf) \div TrigFine)
            p0 == 15707 + ((p1 * xf) \div TrigFine)
        IN  FMul(FSqrt(FSub(One, Norm(xf, TrigFine, 0))), Norm(p0, 10000, 0)))

\* f32::acos: NaN outside -1 .. 1
FAcos(a) ==
    IF ~IsFinite(a) \/ FLt(a, I(-1)) \/ FGt(a, One) THEN NaN
    ELSE IF FGe(a, Zero) THEN RoundTo(AcosUnit(a), TrigFine)
    ELSE RoundTo(FSub(PI, AcosUnit(FNeg(a))), TrigFine)

(***************************************************************************)
(* Integer widths.  A u32 is the pair <<hi, lo>> of its 16-bit halves, so  *)
(* that the values above 2^31 that `as u32` produces from a negative i32   *)
(* are represented.                                                        *)
(***************************************************************************)
Half == 65536

\* `i as u32` for an i32 i (two's complement wrap-around)
AsU32(i) == <<(i \div Half) % Half, i % Half>>

\* `a < b` for a u32 a and a small non-negative integer b
U32Lt(a, b) == a[1] = 0 /\ a[2] < b

\* the value of a u32 that is below 2^16
U32Val(a) == a[2]

(***************************************************************************)
(* f32 arithmetic with its rounding                                        *)
(*                                                                         *)
(* A finite f32 is  m * 2^x, written <<m, x>>, with m = 0 and x = 0 or     *)
(* 2^23 <= |m| < 2^24; the exponent SpecialExp marks +Inf and -Inf         *)
(* (m = 1, m = -1) and NaN (m = 0).  Every operation returns the exact     *)
(* result rounded to the nearest such value, a tie to the even m.  The     *)
(* sign of a zero, subnormals and overflow of the exponent are not         *)
(* modelled: no comparison tells the two zeros apart, and the values       *)
(* below stay far from the ends of the exponent range.                     *)
(***************************************************************************)
\* 2^24: an f32 has a significand of 24 bits
Two24 == 16777216

\* 2^12, half a significand
Two12 == 4096

\* the guard bits an intermediate result is kept with before it is rounded
GuardBits == 6

SpecialExp == 128

RECURSIVE Pow2(_)
Pow2(k) == IF k <= 0 THEN 1 ELSE 2 * Pow2(k - 1)

RECURSIVE BitLen(_)
BitLen(n) == IF n = 0 THEN 0 ELSE 1 + BitLen(n \div 2)

NaN32 == <<0, SpecialExp>>

Inf32(sign) == <<sign, SpecialExp>>

Zero32 == <<0, 0>>

IsNaN32(a) == a[2] = SpecialExp /\ a[1] = 0

IsInf32(a) == a[2] = SpecialExp /\ a[1] # 0

IsFinite32(a) == a[2] # SpecialExp

\* n with its lowest s bits rounded away, to the nearest, a tie to even; above
\* tells that the exact value lies above n by less than one unit of n
RoundBits(n, s, above) ==
    LET q == n \div Pow2(s)
        rem == n % Pow2(s)
        half == Pow2(s - 1)
    IN  IF rem > half \/ (rem = half /\ (above \/ q % 2 = 1)) THEN q + 1 ELSE q

\* the f32 nearest to sign * (n + e) * 2^x, n > 0, where 0 < e < 1 if above
\* and e = 0 if not; an n of fewer than 24 bits is exact
Round32(sign, n, x, above) ==
    LET s == BitLen(n) - 24
    IN  IF n = 0 THEN Zero32
        ELSE IF s <= 0 THEN <<sign * n * Pow2(-s), x + s>>
        ELSE Let(RoundBits(n, s, above), LAMBDA r :
                 IF r = Two24 THEN <<sign * (Two24 \div 2), x + s + 1>>
                 ELSE <<sign * r, x + s>>)

\* an integer as f32
F32(i) == Round32(Sgn(i), Abs(i), 0, FALSE)

One32 == F32(1)

F32Neg(a) == <<-a[1], a[2]>>

\* the sum of two finite non-zero values, a the one of the larger exponent:
\* a is given GuardBits more bits and b is aligned to it; the bits of b that
\* fall off the end are kept as `above` (when b is subtracted, after taking
\* one unit more of b)
AddAligned(a, b) ==
    LET d == a[2] - b[2]
        up == IF d < GuardBits THEN d ELSE GuardBits
        down == d - up
        big == Abs(a[1]) * Pow2(up)
        lost == down > 0 /\ (down > 24 \/ Abs(b[1]) % Pow2(down) # 0)
        small == IF down > 24 THEN 0 ELSE Abs(b[1]) \div Pow2(down)
        same == Sgn(a[1]) = Sgn(b[1])
        n == IF same THEN big + small
             ELSE IF lost THEN big - small - 1 ELSE big - small
    IN  Round32(IF n < 0 THEN -Sgn(a[1]) ELSE Sgn(a[1]), Abs(n), a[2] - up, lost)

F32Add(a, b) ==
    IF IsNaN32(a) \/ IsNaN32(b) THEN NaN32
    ELSE IF IsInf32(a) THEN IF IsInf32(b) /\ a[1] # b[1] THEN NaN32 ELSE a
    ELSE IF IsInf32(b) THEN b
    ELSE IF a[1] = 0 THEN b
    ELSE IF b[1] = 0 THEN a
    ELSE IF a[2] >= b[2] THEN AddAligned(a, b) ELSE AddAligned(b, a)

F32Sub(a, b) == F32Add(a, F32Neg(b))

\* the 48-bit product of two significands as <<hi, lo>>, hi * 2^24 + lo,
\* formed from their 12-bit halves
Product(ma, mb) ==
    LET a1 == ma \div Two12
        a0 == ma % Two12
        b1 == mb \div Two12
        b0 == mb % Two12
        mid == a1 * b0 + a0 * b1
        low == (mid % Two12) * Two12 + a0 * b0
    IN  <<a1 * b1 + (mid \div Two12) + (low \div Two24), low % Two24>>

F32Mul(a, b) ==
    IF IsNaN32(a) \/ IsNaN32(b) THEN NaN32
    ELSE IF IsInf32(a) \/ IsInf32(b)
         THEN IF a[1] = 0 \/ b[1] = 0 THEN NaN32 ELSE Inf32(Sgn(a[1]) * Sgn(b[1]))
    ELSE IF a[1] = 0 \/ b[1] = 0 THEN Zero32
    ELSE Let(Product(Abs(a[1]), Abs(b[1])), LAMBDA p :
             LET keep == Pow2(24 - GuardBits)
             IN  Round32(Sgn(a[1]) * Sgn(b[1]), p[1] * Pow2(GuardBits) + (p[2] \div keep),
                         a[2] + b[2] + 24 - GuardBits, p[2] % keep # 0))

F32Div(a, b) ==
    IF IsNaN32(a) \/ IsNaN32(b) THEN NaN32
    ELSE IF IsInf32(a) THEN IF IsInf32(b) THEN NaN32
                            ELSE Inf32(Sgn(a[1]) * (IF b[1] < 0 THEN -1 ELSE 1))
    ELSE IF IsInf32(b) THEN Zero32
    ELSE IF b[1] = 0 THEN IF a[1] = 0 THEN NaN32 ELSE Inf32(Sgn(a[1]))
    ELSE IF a[1] = 0 THEN Zero32
    ELSE LET ma == Abs(a[1])
             mb == Abs(b[1])
             scale == Pow2(23 + GuardBits)
         IN  Let(MulDivMod(ma % mb, scale, mb), LAMBDA q :
                 Round32(Sgn(a[1]) * Sgn(b[1]), (ma \div mb) * scale + q[1],
                         a[2] - b[2] - 23 - GuardBits, q[2] # 0))

\* a >= b of IEEE-754: false with a NaN on either side
F32Ge(a, b) ==
    IF IsNaN32(a) \/ IsNaN32(b) THEN FALSE
    ELSE IF a = b THEN TRUE
    ELSE IF IsInf32(a) THEN a[1] > 0
    ELSE IF IsInf32(b) THEN b[1] < 0
    ELSE Let(F32Sub(a, b), LAMBDA diff : diff[1] >= 0)
(***************************************************************************)
(* Vec2f, Vec3f and Vec4f (src/src/math): tuples of f32                    *)
(***************************************************************************)
Vec2(x, y) == <<x, y>>

Vec3(x, y, z) == <<x, y, z>>

Vec4(x, y, z, w) == <<x, y, z, w>>

Dot2(a, b) == FAdd(FMul(a[1], b[1]), FMul(a[2], b[2]))

Dot3(a, b) == FAdd(FAdd(FMul(a[1], b[1]), FMul(a[2], b[2])), FMul(a[3], b[3]))

\* Vec2f::length, Vec3f::length and Vec4f::length
Length2(v) == FSqrt(FAdd(FMul(v[1], v[1]), FMul(v[2], v[2])))

Length3(v) == FSqrt(FAdd(FAdd(FMul(v[1], v[1]), FMul(v[2], v[2])), FMul(v[3], v[3])))

Length4(v) ==
    FSqrt(FAdd(FAdd(FAdd(FMul(v[1], v[1]), FMul(v[2], v[2])), FMul(v[3], v[3])),
               FMul(v[4], v[4])))

\* Vec2f::normalize: the vector returned and the divisors of the divisions made
Normalize2(v) ==
    LET len == Length2(v)
    IN  IF FGt(len, Zero)
        THEN [out |-> Vec2(FDiv(v[1], len), FDiv(v[2], len)), divisors |-> <<len, len>>]
        ELSE [out |-> v, divisors |-> <<>>]

\* Vec3f::normalize
Normalize3(v) ==
    Let(Length3(v), LAMBDA len :
        IF FGt(len, Zero)
        THEN [out |-> Vec3(FDiv(v[1], len), FDiv(v[2], len), FDiv(v[3], len)),
              divisors |-> <<len, len, len>>]
        ELSE [out |-> v, divisors |-> <<>>])

\* Vec4f::normalize
Normalize4(v) ==
    LET len == Length4(v)
    IN  [out |-> Vec4(FDiv(v[1], len), FDiv(v[2], len), FDiv(v[3], len), FDiv(v[4], len)),
         divisors |-> <<len, len, len, len>>]

\* the operators of Vec3f: +, -, * f32, / f32, component-wise * and unary -
Add3(a, b) == Vec3(FAdd(a[1], b[1]), FAdd(a[2], b[2]), FAdd(a[3], b[3]))

Sub3(a, b) == Vec3(FSub(a[1], b[1]), FSub(a[2], b[2]), FSub(a[3], b[3]))

Scale3(a, scalar) == Vec3(FMul(a[1], scalar), FMul(a[2], scalar), FMul(a[3], scalar))

Div3(a, scalar) == Vec3(FDiv(a[1], scalar), FDiv(a[2], scalar), FDiv(a[3], scalar))

Mul3(a, b) == Vec3(FMul(a[1], b[1]), FMul(a[2], b[2]), FMul(a[3], b[3]))

Neg3(a) == Vec3(FNeg(a[1]), FNeg(a[2]), FNeg(a[3]))

\* Vec3f::cross
cross(a, b) ==
    Vec3(FSub(FMul(a[2], b[3]), FMul(a[3], b[2])),
         FSub(FMul(a[3], b[1]), FMul(a[1], b[3])),
         FSub(FMul(a[1], b[2]), FMul(a[2], b[1])))

\* Vec3f::calculate_triangle_normal
calculate_triangle_normal(v0, v1, v2) ==
    LET edge1 == Sub3(v1, v0)
        edge2 == Sub3(v2, v0)
    IN  Normalize3(cross(edge1, edge2)).out

\* Vec3f::zero
Zero3 == Vec3(Zero, Zero, Zero)

(***************************************************************************)
(* Mat4x4 (src/src/math/matrix.rs): m[row * 4 + col], rows and columns     *)
(* counted from 0                                                          *)
(***************************************************************************)
MatIndex == 0 .. 15

AugIndex == 0 .. 31

\* Mat4x4::identity
Identity == [i \in MatIndex |-> IF i \div 4 = i % 4 THEN One ELSE Zero]

\* Mat4x4::get
Get(m, row, col) == m[row * 4 + col]

\* Mat4x4::multiply
Multiply(a, b) ==
    Strict(<<a, b>>,
        Value([i \in MatIndex |->
                  LET row == i \div 4
                      col == i % 4
                  IN  FAdd(FAdd(FAdd(FAdd(Zero, FMul(Get(a, row, 0), Get(b, 0, col))),
                                     FMul(Get(a, row, 1), Get(b, 1, col))),
                                FMul(Get(a, row, 2), Get(b, 2, col))),
                           FMul(Get(a, row, 3), Get(b, 3, col)))]))

\* the closure get_aug of Mat4x4::inverse
GetAug(aug, row, col) == aug[row * 8 + col]

\* 1e-10, the magnitude below which inverse takes a pivot for zero
PivotTolerance == <<1, 1, 10>>

\* the pivot search of inverse from row `row` on: the row chosen and max_val
RECURSIVE FindPivotFrom(_, _, _, _, _)
FindPivotFrom(aug, current_col, row, pivot_row, max_val) ==
    IF row > 3 THEN [pivot_row |-> pivot_row, max_val |-> max_val]
    ELSE LET val == FAbs(GetAug(aug, row, current_col))
         IN  IF FGt(val, max_val)
             THEN FindPivotFrom(aug, current_col, row + 1, row, val)
             ELSE FindPivotFrom(aug, current_col, row + 1, pivot_row, max_val)

\* the pivot search that finds the largest value but keeps the diagonal row
FindPivotNoRow(aug, current_col) ==
    [pivot_row |-> current_col,
     max_val |-> FindPivotFrom(aug, current_col, current_col + 1, current_col,
                               FAbs(GetAug(aug, current_col, current_col))).max_val]

FindPivot(aug, current_col) ==
    FindPivotFrom(aug, current_col, current_col + 1, current_col,
                  FAbs(GetAug(aug, current_col, current_col)))

\* the singularity test with the sign of the tolerance wrong
IsSingularPivotWrongSign(max_val) == FLt(max_val, FNeg(PivotTolerance))

\* the singularity test of inverse
IsSingularPivot(max_val) == FLt(max_val, PivotTolerance)

\* the row swap of inverse
SwapRows(aug, r1, r2) ==
    [i \in AugIndex |->
        IF i \div 8 = r1 THEN aug[r2 * 8 + (i % 8)]
        ELSE IF i \div 8 = r2 THEN aug[r1 * 8 + (i % 8)]
        ELSE aug[i]]

\* the scaling of the pivot row
ScaleRow(aug, current_col, pivot_element) ==
    [i \in AugIndex |->
        IF i \div 8 = current_col THEN FDiv(aug[i], pivot_element) ELSE aug[i]]

\* the elimination of the pivot column from the other rows
Eliminate(aug, current_col) ==
    [i \in AugIndex |->
        IF i \div 8 # current_col
        THEN FSub(aug[i], FMul(GetAug(aug, i \div 8, current_col),
                               GetAug(aug, current_col, i % 8)))
        ELSE aug[i]]

\* the column loop of inverse from current_col on; pivots and divisors record
\* the max_val found and the pivot_element divided by in every column
RECURSIVE GaussJordanFrom(_, _, _, _)
GaussJordanFrom(aug, current_col, pivots, divisors) ==
    IF current_col > 3
    THEN [some |-> TRUE, m |-> [i \in MatIndex |-> GetAug(aug, i \div 4, (i % 4) + 4)],
          pivots |-> pivots, divisors |-> divisors]
    ELSE LET p == FindPivot(aug, current_col)
             swapped == IF p.pivot_row # current_col
                        THEN SwapRows(aug, current_col, p.pivot_row) ELSE aug
             pivot_element == GetAug(swapped, current_col, current_col)
         IN  IF IsSingularPivot(p.max_val)
             THEN [some |-> FALSE, m |-> Identity,
                   pivots |-> Append(pivots, p.max_val), divisors |-> divisors]
             ELSE GaussJordanFrom(
                      Eliminate(ScaleRow(swapped, current_col, pivot_element), current_col),
                      current_col + 1, Append(pivots, p.max_val),
                      Append(divisors, pivot_element))

\* Mat4x4::inverse: some = FALSE stands for None
Inverse(m) ==
    GaussJordanFrom([i \in AugIndex |->
                        IF i % 8 < 4 THEN Get(m, i \div 8, i % 8)
                        ELSE IF i \div 8 = (i % 8) - 4 THEN One ELSE Zero],
                    0, <<>>, <<>>)

\* Mat4x4::new: the matrix of 16 numbers given row by row
Mat(entries) == Value([i \in MatIndex |-> entries[i + 1]])

\* Mat4x4::translation
translation(x, y, z) ==
    Mat(<<One,  Zero, Zero, x,
          Zero, One,  Zero, y,
          Zero, Zero, One,  z,
          Zero, Zero, Zero, One>>)

\* Mat4x4::rotation_x, Mat4x4::rotation_y and Mat4x4::rotation_z
rotation_x(angle) ==
    Let(FCos(angle), LAMBDA cos_a :
    Let(FSin(angle), LAMBDA sin_a :
        Mat(<<One,  Zero,  Zero,        Zero,
              Zero, cos_a, FNeg(sin_a), Zero,
              Zero, sin_a, cos_a,       Zero,
              Zero, Zero,  Zero,        One>>)))

rotation_y(angle) ==
    Let(FCos(angle), LAMBDA cos_a :
    Let(FSin(angle), LAMBDA sin_a :
        Mat(<<cos_a,       Zero, sin_a, Zero,
              Zero,        One,  Zero,  Zero,
              FNeg(sin_a), Zero, cos_a, Zero,
              Zero,        Zero, Zero,  One>>)))

rotation_z(angle) ==
    Let(FCos(angle), LAMBDA cos_a :
    Let(FSin(angle), LAMBDA sin_a :
        Mat(<<cos_a, FNeg(sin_a), Zero, Zero,
              sin_a, cos_a,       Zero, Zero,
              Zero,  Zero,        One,  Zero,
              Zero,  Zero,        Zero, One>>)))

\* Mat4x4::scale
scale(x, y, z) ==
    Mat(<<x,    Zero, Zero, Zero,
          Zero, y,    Zero, Zero,
          Zero, Zero, z,    Zero,
          Zero, Zero, Zero, One>>)

\* row `row` of m times the column vector v, summed from 0.0 as the code does
RowTimes(m, row, v) ==
    FAdd(FAdd(FAdd(FAdd(Zero, FMul(Get(m, row, 0), v[1])), FMul(Get(m, row, 1), v[2])),
              FMul(Get(m, row, 2), v[3])),
         FMul(Get(m, row, 3), v[4]))

\* Mat4x4::multiply_point (w = 1) and Mat4x4::multiply_vector (w = 0)
multiply_point(m, point) ==
    LET vector_4d == Vec4(point[1], point[2], point[3], One)
    IN  Vec3(RowTimes(m, 0, vector_4d), RowTimes(m, 1, vector_4d), RowTimes(m, 2, vector_4d))

multiply_vector(m, vector) ==
    LET vector_4d == Vec4(vector[1], vector[2], vector[3], Zero)
    IN  Vec3(RowTimes(m, 0, vector_4d), RowTimes(m, 1, vector_4d), RowTimes(m, 2, vector_4d))

\* Mat4x4::multiply_point_4d, which the source tree does not hold: the product
\* with the point at w = 1, all four components kept
multiply_point_4d(m, point) ==
    LET vector_4d == Vec4(point[1], point[2], point[3], One)
    IN  Vec4(RowTimes(m, 0, vector_4d), RowTimes(m, 1, vector_4d),
             RowTimes(m, 2, vector_4d), RowTimes(m, 3, vector_4d))

\* Mat4x4::look_at
look_at(eye, target, up) ==
    Let(Normalize3(Sub3(target, eye)).out, LAMBDA forward :
    Let(Normalize3(cross(forward, up)).out, LAMBDA right :
    Let(cross(right, forward), LAMBDA camera_up :
        Mat(<<right[1],         right[2],         right[3],         FNeg(Dot3(right, eye)),
              camera_up[1],     camera_up[2],     camera_up[3],     FNeg(Dot3(camera_up, eye)),
              FNeg(forward[1]), FNeg(forward[2]), FNeg(forward[3]), Dot3(forward, eye),
              Zero,             Zero,             Zero,             One>>))))

\* Mat4x4::perspective, which the source tree does not hold: the OpenGL
\* frustum with f = 1 / tan(fov / 2) and -1 in row 3 for the divide
perspective(fov, aspect, near, far) ==
    Let(FDiv(One, FTan(FDiv(fov, I(2)))), LAMBDA f :
        Mat(<<FDiv(f, aspect), Zero, Zero, Zero,
              Zero, f, Zero, Zero,
              Zero, Zero, FDiv(FAdd(far, near), FSub(near, far)),
                          FDiv(FMul(FMul(I(2), far), near), FSub(near, far)),
              Zero, Zero, I(-1), Zero>>))
(***************************************************************************)
(* Renderer (src/src/renderer.rs)                                          *)
(***************************************************************************)
\* the size of the Renderer (main.rs builds 800 x 600)
Width == 3

Height == 3

NumPixels == Width * Height

Pixels == 0 .. (NumPixels - 1)

\* 0xFF000000, the colour Renderer::new fills the framebuffer with
Black == <<65280, 0>>

\* the colours of Mesh::create_cube: 0xFF00FF00, 0xFFFF0000, 0xFF0000FF,
\* 0xFFFFFF00, 0xFFFF00FF and 0xFF00FFFF
Green == <<65280, 65280>>

Red == <<65535, 0>>

Blue == <<65280, 255>>

Yellow == <<65535, 65280>>

Magenta == <<65535, 255>>

Cyan == <<65280, 65535>>

\* Renderer::new
NewRenderer ==
    [fb |-> [i \in Pixels |-> Black], zb |-> [i \in Pixels |-> PosInf],
     panic |-> FALSE, nonfin |-> FALSE]

\* Renderer::barycentric_coordinates
barycentric_coordinates(p, v0, v1, v2) ==
    Let3(Vec2(FSub(v1[1], v0[1]), FSub(v1[2], v0[2])),
         Vec2(FSub(v2[1], v0[1]), FSub(v2[2], v0[2])),
         Vec2(FSub(p[1], v0[1]), FSub(p[2], v0[2])), LAMBDA v0v1, v0v2, v0p :
    Let3(Dot2(v0v2, v0v2), Dot2(v0v1, v0v2), Dot2(v0v2, v0p), LAMBDA dot00, dot01, dot02 :
    Let2(Dot2(v0v1, v0v1), Dot2(v0v1, v0p), LAMBDA dot11, dot12 :
    Let(FDiv(One, FSub(FMul(dot00, dot11), FMul(dot01, dot01))), LAMBDA inv_denom :
    Let2(FMul(FSub(FMul(dot11, dot02), FMul(dot01, dot12)), inv_denom),
         FMul(FSub(FMul(dot00, dot12), FMul(dot01, dot02)), inv_denom), LAMBDA u, v :
         <<u, v, FSub(FSub(One, u), v)>>)))))

\* set_pixel with the bounds test off by one
set_pixel_inclusive(r, x, y, color) ==
    IF U32Lt(x, Width + 1) /\ U32Lt(y, Height + 1)
    THEN [r EXCEPT !.fb[U32Val(y) * Width + U32Val(x)] = color]
    ELSE r

\* Renderer::set_pixel on a renderer value r
set_pixel(r, x, y, color) ==
    IF U32Lt(x, Width) /\ U32Lt(y, Height)
    THEN [r EXCEPT !.fb[U32Val(y) * Width + U32Val(x)] = color]
    ELSE r

\* clear leaving the depth buffer as it is
clear_color_only(r, color) == [r EXCEPT !.fb = [i \in DOMAIN r.fb |-> color]]

\* Renderer::clear
clear(r, color) ==
    [r EXCEPT !.fb = [i \in DOMAIN r.fb |-> color],
              !.zb = [i \in DOMAIN r.zb |-> PosInf]]

\* the arguments of a draw_triangle call
Triangle(v0, v1, v2, z0, z1, z2, color) ==
    [v0 |-> v0, v1 |-> v1, v2 |-> v2, z0 |-> z0, z1 |-> z1, z2 |-> z2, color |-> color]

\* the depth draw_triangle computes from the weights of a pixel
InterpolateDepth(bc, t) ==
    FAdd(FAdd(FMul(bc[1], t.z0), FMul(bc[2], t.z1)), FMul(bc[3], t.z2))

\* the inside test of draw_triangle
InsideTest(bc) == FGe(bc[1], Zero) /\ FGe(bc[2], Zero) /\ FGe(bc[3], Zero)

\* Vec2f::dot in f32
Dot2f32(a, b) == F32Add(F32Mul(a[1], b[1]), F32Mul(a[2], b[2]))

\* Renderer::barycentric_coordinates as f32 computes it, every operation
\* rounded; p, v0, v1 and v2 are pairs of f32 values
barycentric_coordinates_f32(p, v0, v1, v2) ==
    Let3(<<F32Sub(v1[1], v0[1]), F32Sub(v1[2], v0[2])>>,
         <<F32Sub(v2[1], v0[1]), F32Sub(v2[2], v0[2])>>,
         <<F32Sub(p[1], v0[1]), F32Sub(p[2], v0[2])>>, LAMBDA v0v1, v0v2, v0p :
    Let3(Dot2f32(v0v2, v0v2), Dot2f32(v0v1, v0v2), Dot2f32(v0v2, v0p), LAMBDA dot00, dot01, dot02 :
    Let2(Dot2f32(v0v1, v0v1), Dot2f32(v0v1, v0p), LAMBDA dot11, dot12 :
    Let(F32Div(One32, F32Sub(F32Mul(dot00, dot11), F32Mul(dot01, dot01))), LAMBDA inv_denom :
    Let2(F32Mul(F32Sub(F32Mul(dot11, dot02), F32Mul(dot01, dot12)), inv_denom),
         F32Mul(F32Sub(F32Mul(dot00, dot12), F32Mul(dot01, dot02)), inv_denom), LAMBDA u, v :
         <<u, v, F32Sub(F32Sub(One32, u), v)>>)))))

\* the inside test of draw_triangle on f32 weights
InsideTest32(bc) == F32Ge(bc[1], Zero32) /\ F32Ge(bc[2], Zero32) /\ F32Ge(bc[3], Zero32)

\* the body of the pixel loop with a depth test that lets an equal depth pass
DrawPixelDepthLe(r, t, x, y) ==
    Let(barycentric_coordinates(Vec2(I(x), I(y)), t.v0, t.v1, t.v2), LAMBDA bc :
    LET pixel_index == y * Width + x
    IN  IF ~InsideTest(bc) THEN r
        ELSE IF pixel_index \notin DOMAIN r.zb THEN [r EXCEPT !.panic = TRUE]
        ELSE Let(InterpolateDepth(bc, t), LAMBDA depth :
                 IF FLe(depth, r.zb[pixel_index])
                 THEN set_pixel([r EXCEPT !.zb[pixel_index] = depth],
                                AsU32(x), AsU32(y), t.color)
                 ELSE r))

\* the body of the pixel loop of draw_triangle for the pixel (x, y)
DrawPixel(r, t, x, y) ==
    Let(barycentric_coordinates(Vec2(I(x), I(y)), t.v0, t.v1, t.v2), LAMBDA bc :
    LET r1 == [r EXCEPT !.nonfin =
                  @ \/ ~IsFinite(bc[1]) \/ ~IsFinite(bc[2]) \/ ~IsFinite(bc[3])]
        pixel_index == y * Width + x
    IN  IF ~InsideTest(bc) THEN r1
        ELSE IF pixel_index \notin DOMAIN r.zb THEN [r1 EXCEPT !.panic = TRUE]
        ELSE Let(InterpolateDepth(bc, t), LAMBDA depth :
                 IF FLt(depth, r.zb[pixel_index])
                 THEN set_pixel([r1 EXCEPT !.zb[pixel_index] = depth],
                                AsU32(x), AsU32(y), t.color)
                 ELSE r1))

\* the bounding box of draw_triangle
MinX(t) == FloorInt(FMin(FMin(t.v0[1], t.v1[1]), t.v2[1]))

MaxX(t) == CeilInt(FMax(FMax(t.v0[1], t.v1[1]), t.v2[1]))

MinY(t) == FloorInt(FMin(FMin(t.v0[2], t.v1[2]), t.v2[2]))

MaxY(t) == CeilInt(FMax(FMax(t.v0[2], t.v1[2]), t.v2[2]))

\* the pixel loop of draw_triangle over the pixels lo .. hi of the bounding
\* box, rows first: the first half of them and then the second; an index out
\* of bounds panics and ends the call
RECURSIVE DrawRange(_, _, _, _)
DrawRange(r, t, lo, hi) ==
    IF lo > hi \/ r.panic THEN r
    ELSE IF lo = hi
         THEN LET nx == MaxX(t) - MinX(t) + 1
              IN  DrawPixel(r, t, MinX(t) + (lo % nx), MinY(t) + (lo \div nx))
    ELSE Let(DrawRange(r, t, lo, (lo + hi) \div 2), LAMBDA first :
             DrawRange(first, t, ((lo + hi) \div 2) + 1, hi))

\* Renderer::draw_triangle
draw_triangle(r, t) ==
    DrawRange(r, t, 0, (MaxX(t) - MinX(t) + 1) * (MaxY(t) - MinY(t) + 1) - 1)

(***************************************************************************)
(* Renderer::draw_line (src/src/renderer.rs).  The coordinates and the     *)
(* error term are i32: an operation whose result does not fit panics in a  *)
(* build with overflow checks and wraps around in a build without.         *)
(***************************************************************************)
MaxI32 == 2147483647

MinI32 == -MaxI32 - 1

\* a + b and a - b do not fit an i32
AddOverflows(a, b) == (b > 0 /\ a > MaxI32 - b) \/ (b < 0 /\ a < MinI32 - b)

SubOverflows(a, b) == (b < 0 /\ a > MaxI32 + b) \/ (b > 0 /\ a < MinI32 + b)

\* a + b and a - b modulo 2^32, as an i32
WrapAdd(a, b) ==
    IF b > 0 /\ a > MaxI32 - b THEN (a - MaxI32 - 1) + (b - MaxI32 - 1)
    ELSE IF b < 0 /\ a < MinI32 - b THEN (a + MaxI32 + 1) + (b + MaxI32 + 1)
    ELSE a + b

WrapSub(a, b) ==
    IF b < 0 /\ a > MaxI32 + b THEN (a - MaxI32 - 1) - (b + MaxI32 + 1)
    ELSE IF b > 0 /\ a < MinI32 + b THEN (a + MaxI32 + 1) - (b - MaxI32 - 1)
    ELSE a - b

\* i32::abs and the unary minus: both leave i32::MIN as it is when they wrap
WrapAbs(a) == IF a = MinI32 THEN MinI32 ELSE Abs(a)

WrapNeg(a) == IF a = MinI32 THEN MinI32 ELSE -a

\* the locals of draw_line before its loop, for the arguments in a build with
\* overflow checks (checked) or without
LineLocals(a, checked) ==
    LET ex == WrapSub(a.x1, a.x0)
        ey == WrapSub(a.y1, a.y0)
        dx == WrapAbs(ex)
        dy == WrapAbs(ey)
        overflow == \/ SubOverflows(a.x1, a.x0) \/ ex = MinI32
                    \/ SubOverflows(a.y1, a.y0) \/ ey = MinI32
                    \/ SubOverflows(dx, dy)
    IN  [x1 |-> a.x1, y1 |-> a.y1, color |-> a.color, checked |-> checked,
         dx |-> dx, dy |-> dy,
         sx |-> IF a.x0 < a.x1 THEN 1 ELSE -1,
         sy |-> IF a.y0 < a.y1 THEN 1 ELSE -1,
         err |-> WrapSub(dx, dy), x |-> a.x0, y |-> a.y0,
         status |-> IF checked /\ overflow THEN "panicked" ELSE "running"]

\* one pass through the loop of draw_line after its set_pixel call: the break,
\* or the step to the next pixel
LineStep(l) ==
    IF l.x = l.x1 /\ l.y = l.y1 THEN [l EXCEPT !.status = "done"]
    ELSE LET e2     == WrapAdd(l.err, l.err)
             move_x == e2 > WrapNeg(l.dy)
             err1   == IF move_x THEN WrapSub(l.err, l.dy) ELSE l.err
             x      == IF move_x THEN WrapAdd(l.x, l.sx) ELSE l.x
             move_y == e2 < l.dx
             overflow == \/ AddOverflows(l.err, l.err)
                         \/ l.dy = MinI32
                         \/ move_x /\ (SubOverflows(l.err, l.dy) \/ AddOverflows(l.x, l.sx))
                         \/ move_y /\ (AddOverflows(err1, l.dx) \/ AddOverflows(l.y, l.sy))
         IN  IF l.checked /\ overflow THEN [l EXCEPT !.status = "panicked"]
             ELSE [l EXCEPT !.x = x,
                            !.err = IF move_y THEN WrapAdd(err1, l.dx) ELSE err1,
                            !.y = IF move_y THEN WrapAdd(l.y, l.sy) ELSE l.y]

\* the loop of draw_line from the locals l on
RECURSIVE LineLoop(_, _)
LineLoop(r, l) ==
    IF l.status # "running" THEN [r EXCEPT !.panic = @ \/ l.status = "panicked"]
    ELSE LineLoop(set_pixel(r, AsU32(l.x), AsU32(l.y), l.color), LineStep(l))

\* Renderer::draw_line on a renderer value r
draw_line(r, a, checked) == LineLoop(r, LineLocals(a, checked))
(***************************************************************************)
(* The scene pass keeps every f32 it computes from others on a grid: a     *)
(* multiple of 1 / VecScale, rounded to the nearest, as an f32 is rounded  *)
(* to its 24 bits.  Values the code writes as literals stay exact.         *)
(***************************************************************************)
VecScale == 256

Round1(a) == RoundTo(a, VecScale)

Round3(v) == Vec3(Round1(v[1]), Round1(v[2]), Round1(v[3]))

RoundMat(m) == Mat(<<Round1(m[0]),  Round1(m[1]),  Round1(m[2]),  Round1(m[3]),
                     Round1(m[4]),  Round1(m[5]),  Round1(m[6]),  Round1(m[7]),
                     Round1(m[8]),  Round1(m[9]),  Round1(m[10]), Round1(m[11]),
                     Round1(m[12]), Round1(m[13]), Round1(m[14]), Round1(m[15])>>)

(***************************************************************************)
(* Camera (src/src/camera.rs)                                              *)
(***************************************************************************)
\* Camera::new and Camera::look_at
Camera_new(position, target, up) ==
    [position |-> position, target |-> target, up |-> Round3(Normalize3(up).out),
     fov |-> FDiv(PI, I(4)), aspect |-> FDiv(I(4), I(3)),
     near |-> Q(1, 10), far |-> I(100)]

\* Camera::get_view_matrix and Camera::get_projection_matrix
get_view_matrix(cam) == RoundMat(look_at(cam.position, cam.target, cam.up))

get_projection_matrix(cam) == perspective(cam.fov, cam.aspect, cam.near, cam.far)

\* Camera::set_aspect_ratio
set_aspect_ratio(cam, w, h) == [cam EXCEPT !.aspect = FDiv(w, h)]

\* the camera moved by a delta: position and target are both given it
Moved(cam, delta) ==
    [cam EXCEPT !.position = Add3(cam.position, delta), !.target = Add3(cam.target, delta)]

\* the camera with its position alone moved by a delta
MovedPositionOnly(cam, delta) == [cam EXCEPT !.position = Add3(cam.position, delta)]

\* Camera::move_forward, Camera::move_right and Camera::move_up
move_forward_leaving_target(cam, distance) ==
    Let(Round3(Normalize3(Sub3(cam.target, cam.position)).out), LAMBDA forward :
        MovedPositionOnly(cam, Scale3(forward, distance)))

move_forward(cam, distance) ==
    Let(Round3(Normalize3(Sub3(cam.target, cam.position)).out), LAMBDA forward :
        Moved(cam, Scale3(forward, distance)))

move_right(cam, distance) ==
    Let(Round3(Normalize3(Sub3(cam.target, cam.position)).out), LAMBDA forward :
    Let(Round3(Normalize3(cross(forward, cam.up)).out), LAMBDA right :
        Moved(cam, Scale3(right, distance))))

move_up(cam, distance) == Moved(cam, Scale3(cam.up, distance))

(***************************************************************************)
(* Mesh and Triangle (src/src/mesh.rs): vertices are indexed from 0        *)
(***************************************************************************)
\* Option<usize>: None and Some(id)
None == [some |-> FALSE, id |-> 0]

Some(id) == [some |-> TRUE, id |-> id]

\* Triangle::new
Triangle_new(i0, i1, i2, color) ==
    [indices |-> <<i0, i1, i2>>, color |-> color, material_id |-> None]

\* Triangle::with_material
Triangle_with_material(i0, i1, i2, color, material_id) ==
    [indices |-> <<i0, i1, i2>>, color |-> color, material_id |-> Some(material_id)]

\* mesh.vertices[i]
Vertex(vertices, i) == vertices[i + 1]

\* Mesh::create_cube
create_cube ==
    [vertices |-> <<Vec3(I(-1), I(-1), I(1)),  Vec3(I(1), I(-1), I(1)),
                    Vec3(I(1), I(1), I(1)),    Vec3(I(-1), I(1), I(1)),
                    Vec3(I(-1), I(-1), I(-1)), Vec3(I(1), I(-1), I(-1)),
                    Vec3(I(1), I(1), I(-1)),   Vec3(I(-1), I(1), I(-1))>>,
     triangles |-> <<Triangle_new(0, 1, 2, Green),           Triangle_new(2, 3, 0, Green),
                     Triangle_new(5, 4, 7, Red),             Triangle_new(7, 6, 5, Red),
                     Triangle_new(4, 0, 3, Blue),            Triangle_new(3, 7, 4, Blue),
                     Triangle_new(1, 5, 6, Yellow), Triangle_new(6, 2, 1, Yellow),
                     Triangle_new(3, 2, 6, Magenta),  Triangle_new(6, 7, 3, Magenta),
                     Triangle_new(4, 5, 1, Cyan), Triangle_new(1, 0, 4, Cyan)>>]

\* Mesh::create_triangle
create_triangle ==
    [vertices |-> <<Vec3(Zero, One, Zero), Vec3(I(-1), I(-1), Zero), Vec3(One, I(-1), Zero)>>,
     triangles |-> <<Triangle_new(0, 1, 2, Red)>>]

\* Triangle::get_vertices and Triangle::calculate_normal
get_vertices(triangle, mesh) ==
    <<Vertex(mesh.vertices, triangle.indices[1]), Vertex(mesh.vertices, triangle.indices[2]),
      Vertex(mesh.vertices, triangle.indices[3])>>

calculate_normal(triangle, mesh) ==
    LET v == get_vertices(triangle, mesh)
    IN  calculate_triangle_normal(v[1], v[2], v[3])

\* Mesh::transform_vertices and Mesh::transform_normals
transform_vertices(mesh, transform_matrix) ==
    Value([k \in DOMAIN mesh.vertices |->
              Round3(multiply_point(transform_matrix, mesh.vertices[k]))])

transform_normals(mesh, normal_matrix) ==
    Value([k \in DOMAIN mesh.triangles |->
              Round3(Normalize3(multiply_vector(normal_matrix,
                                                calculate_normal(mesh.triangles[k], mesh))).out)])

(***************************************************************************)
(* Light, Material and LightingSystem (src/src/lighting.rs)                *)
(***************************************************************************)
\* Light::directional, Light::point and Light::spot
Light_directional(direction, color, intensity) ==
    [light_type |-> "Directional", inner_angle |-> Zero, outer_angle |-> Zero,
     position |-> Zero3, direction |-> Round3(Normalize3(direction).out),
     color |-> color, intensity |-> intensity, range |-> Zero]

Light_point(position, color, intensity, range) ==
    [light_type |-> "Point", inner_angle |-> Zero, outer_angle |-> Zero,
     position |-> position, direction |-> Zero3,
     color |-> color, intensity |-> intensity, range |-> range]

Light_spot(position, direction, color, intensity, range, inner_angle, outer_angle) ==
    [light_type |-> "Spot", inner_angle |-> inner_angle, outer_angle |-> outer_angle,
     position |-> position, direction |-> Round3(Normalize3(direction).out),
     color |-> color, intensity |-> intensity, range |-> range]

\* the attenuation with distance: 1 / (1 + 0.1 d + 0.01 d^2)
DistanceAttenuation(distance) ==
    Round1(FDiv(One, FAdd(FAdd(One, FMul(Q(1, 10), distance)),
                          FMul(FMul(Q(1, 100), distance), distance))))

\* no attenuation towards the range
RangeAttenuationNone(light, distance) == One

\* the attenuation towards the range: max(0, (range - d) / range)
RangeAttenuation(light, distance) ==
    Round1(FMax(FDiv(FSub(light.range, distance), light.range), Zero))

\* the match of Light::calculate_lighting: whether it returns (0, 0) at once,
\* the direction to the light and the attenuation
LightDirection(light, surface_point) ==
    IF light.light_type = "Directional"
    THEN [dark |-> FALSE, light_direction |-> Neg3(light.direction), attenuation |-> One]
    ELSE IF light.light_type = "Point"
    THEN Let(Sub3(light.position, surface_point), LAMBDA light_dir :
         Let(Length3(light_dir), LAMBDA distance :
             IF FGt(distance, light.range)
             THEN [dark |-> TRUE, light_direction |-> Zero3, attenuation |-> Zero]
             ELSE [dark |-> FALSE, light_direction |-> Round3(Normalize3(light_dir).out),
                   attenuation |-> Round1(FMul(DistanceAttenuation(distance),
                                               RangeAttenuation(light, distance)))]))
    ELSE Let(Sub3(surface_point, light.position), LAMBDA light_to_surface :
         Let(Length3(light_to_surface), LAMBDA distance :
         Let(Round3(Normalize3(light_to_surface).out), LAMBDA light_direction :
         Let(FAcos(Dot3(light_direction, light.direction)), LAMBDA angle :
             IF FGt(distance, light.range) \/ FGt(angle, light.outer_angle)
             THEN [dark |-> TRUE, light_direction |-> Zero3, attenuation |-> Zero]
             ELSE LET spot_attenuation ==
                          IF FLt(angle, light.inner_angle) THEN One
                          ELSE FPowf(Round1(FDiv(Round1(FSub(light.outer_angle, angle)),
                                                 Round1(FSub(light.outer_angle,
                                                             light.inner_angle)))),
                                     I(2))
                  IN  [dark |-> FALSE, light_direction |-> Neg3(light_direction),
                       attenuation |-> Round1(FMul(Round1(FMul(DistanceAttenuation(distance),
                                                               RangeAttenuation(light, distance))),
                                                   Round1(spot_attenuation)))]))))

\* Light::calculate_lighting: <<diffuse, specular>>
Light_calculate_lighting(light, surface_point, surface_normal, view_direction) ==
    Let(LightDirection(light, surface_point), LAMBDA d :
        IF d.dark \/ FLe(d.attenuation, Zero) THEN <<Zero, Zero>>
        ELSE Let2(Round1(FMax(Dot3(surface_normal, d.light_direction), Zero)),
                  Round3(Normalize3(Add3(d.light_direction, view_direction)).out),
                  LAMBDA diffuse, half_vector :
             LET specular_power == I(32)
             IN  Let(Round1(FPowf(FMax(Dot3(surface_normal, half_vector), Zero),
                                  specular_power)), LAMBDA specular :
                     <<Round1(FMul(diffuse, d.attenuation)),
                       Round1(FMul(specular, d.attenuation))>>)))

\* Material::new and Material::default
Material_new(diffuse, specular, shininess) ==
    [diffuse_color |-> diffuse, specular_color |-> specular,
     specular_power |-> shininess, ambient_factor |-> Q(1, 10)]

Material_default == Material_new(Vec3(One, One, One), Vec3(Q(3, 10), Q(3, 10), Q(3, 10)), I(32))

\* LightingSystem::new and LightingSystem::set_ambient
LightingSystem_new ==
    [lights |-> <<>>, ambient_color |-> Vec3(One, One, One), ambient_intensity |-> Q(1, 10)]

set_ambient(ls, color, intensity) ==
    [ls EXCEPT !.ambient_color = color, !.ambient_intensity = intensity]

\* the loop of LightingSystem::calculate_lighting over the lights from index k on
RECURSIVE AccumulateLights(_, _, _, _, _, _, _)
AccumulateLights(lights, k, final_color, surface_point, surface_normal, view_direction, material) ==
    IF k > Len(lights) THEN final_color
    ELSE LET light == lights[k]
         IN  Let(Light_calculate_lighting(light, surface_point, surface_normal,
                                          view_direction), LAMBDA li :
             LET diffuse_contribution  == Scale3(Scale3(light.color, light.intensity), li[1])
                 specular_contribution == Scale3(Scale3(light.color, light.intensity), li[2])
                 lit == Round3(Add3(Add3(final_color,
                                         Mul3(diffuse_contribution, material.diffuse_color)),
                                    Mul3(specular_contribution, material.specular_color)))
             IN  Let(IF FGt(li[1], Zero) \/ FGt(li[2], Zero) THEN lit ELSE final_color,
                     LAMBDA after :
                     AccumulateLights(lights, k + 1, after, surface_point, surface_normal,
                                      view_direction, material)))

\* LightingSystem::calculate_lighting
calculate_lighting(ls, surface_point, surface_normal, camera_position, material) ==
    LET ambient == Scale3(Scale3(ls.ambient_color, ls.ambient_intensity),
                          material.ambient_factor)
    IN
    Let2(Mul3(ambient, material.diffuse_color),
         Round3(Normalize3(Sub3(camera_position, surface_point)).out),
         LAMBDA final_color, view_direction :
        IF FEq(Length3(surface_normal), Zero) THEN final_color
        ELSE Let(AccumulateLights(ls.lights, 1, final_color, surface_point, surface_normal,
                                  view_direction, material), LAMBDA lit :
                 Vec3(FMax(FMin(lit[1], One), Zero), FMax(FMin(lit[2], One), Zero),
                      FMax(FMin(lit[3], One), Zero))))

(***************************************************************************)
(* GameObject and Scene (src/src/scene.rs)                                 *)
(***************************************************************************)
\* GameObject::new
GameObject_new(mesh) ==
    [mesh |-> mesh, position |-> Zero3, rotation |-> Zero3,
     scale |-> Vec3(One, One, One), materials |-> <<Material_default>>]

\* GameObject::with_position
with_position(obj, position) == [obj EXCEPT !.position = position]

\* GameObject::with_rotation and GameObject::with_scale
with_rotation(obj, rotation) == [obj EXCEPT !.rotation = rotation]

with_scale(obj, scale_by) == [obj EXCEPT !.scale = scale_by]

\* GameObject::add_material: the object with the material appended (the index
\* returned is its last)
add_material(obj, material) == [obj EXCEPT !.materials = Append(@, material)]

\* the model matrix with the three rotations multiplied in the order X, Y, Z
get_model_matrix_xyz(obj) ==
    LET t_m == translation(obj.position[1], obj.position[2], obj.position[3])
        r_x == rotation_x(obj.rotation[1])
        r_y == rotation_y(obj.rotation[2])
        r_z == rotation_z(obj.rotation[3])
        s_m == scale(obj.scale[1], obj.scale[2], obj.scale[3])
    IN  RoundMat(Multiply(t_m, Multiply(r_x, Multiply(r_y, Multiply(r_z, s_m)))))

\* GameObject::get_model_matrix and GameObject::get_normal_matrix
get_model_matrix(obj) ==
    LET t_m == translation(obj.position[1], obj.position[2], obj.position[3])
        r_x == rotation_x(obj.rotation[1])
        r_y == rotation_y(obj.rotation[2])
        r_z == rotation_z(obj.rotation[3])
        s_m == scale(obj.scale[1], obj.scale[2], obj.scale[3])
    IN  RoundMat(Multiply(t_m, Multiply(r_z, Multiply(r_y, Multiply(r_x, s_m)))))

\* GameObject::get_normal_matrix
get_normal_matrix(obj) == get_model_matrix(obj)

\* Scene::new
Scene_new ==
    [game_objects |-> <<>>,
     camera |-> Camera_new(Vec3(Zero, Zero, I(8)), Zero3, Vec3(Zero, One, Zero)),
     lighting |-> set_ambient(LightingSystem_new, Vec3(Q(2, 5), Q(2, 5), Q(1, 2)), Q(3, 20)),
     rotation_time |-> Zero]

\* 0xFF111111, the background of Scene::render
Background == <<65297, 4369>>

\* the resolution of the screen coordinates and of the depths handed to
\* draw_triangle: 1 / SubPixel of a pixel and 1 / DepthScale of the far distance
SubPixel == 4

DepthScale == 1000

\* a rounded down to a multiple of 1 / s
FloorTo(a, s) == IF ~IsFinite(a) THEN a ELSE Norm(FloorScaled(a, s), s, 0)

\* `z >= 0.0` on a point in camera space, the test made on every vertex by
\* Scene::render_game_object and again by Scene::project_to_screen; the camera
\* looks down -z
BeyondCameraPlane(camera_point) == FLe(camera_point[3], Zero)

OnOrBehindCameraPlane(camera_point) == FGe(camera_point[3], Zero)

\* Scene::project_to_screen: None, or Some(pixel) with the NDC it came from
project_to_screen(camera_point, proj_matrix) ==
    LET none == [some |-> FALSE, p |-> Vec2(Zero, Zero), ndc |-> Zero3]
    IN  IF OnOrBehindCameraPlane(camera_point) THEN none
        ELSE Let(multiply_point_4d(proj_matrix, camera_point), LAMBDA projected_4d :
             IF FEq(projected_4d[4], Zero) THEN none
             ELSE Let(FDiv(projected_4d[1], projected_4d[4]), LAMBDA ndc_x :
                  Let(FDiv(projected_4d[2], projected_4d[4]), LAMBDA ndc_y :
                  IF FLt(ndc_x, I(-1)) \/ FGt(ndc_x, One) \/ FLt(ndc_y, I(-1)) \/ FGt(ndc_y, One)
                  THEN none
                  ELSE LET pixel_x == FMul(FMul(FAdd(ndc_x, One), Q(1, 2)), I(Width))
                           pixel_y == FMul(FMul(FSub(One, ndc_y), Q(1, 2)), I(Height))
                       IN  [some |-> TRUE,
                            p    |-> Vec2(FloorTo(pixel_x, SubPixel), FloorTo(pixel_y, SubPixel)),
                            ndc  |-> Vec3(ndc_x, ndc_y,
                                          FDiv(projected_4d[3], projected_4d[4]))])))

\* `(c.min(1.0).max(0.0) * 255.0) as u32`
Channel(c) == FloorInt(FMul(FMax(FMin(c, One), Zero), I(255)))

\* Scene::vec3_to_color: 0xFF000000 | (r << 16) | (g << 8) | b
vec3_to_color(color) ==
    <<65280 + Channel(color[1]), Channel(color[2]) * 256 + Channel(color[3])>>

\* the material of a triangle: materials.get(material_id.unwrap_or(0))
\* .unwrap_or(&materials[0]); materials are indexed from 0
\* the lookup without the material id: always materials[0]
MaterialIndexFirst(obj, triangle) == 0

MaterialIndex(obj, triangle) ==
    LET id == IF triangle.material_id.some THEN triangle.material_id.id ELSE 0
    IN  IF id < Len(obj.materials) THEN id ELSE 0

\* the backface test on world_normal . view_direction, and the test that
\* takes an edge-on triangle for a back face as well
BackFacingOrEdgeOn(facing) == FLe(facing, Zero)

BackFacing(facing) == FLt(facing, Zero)

\* the body of the triangle loop of Scene::render_game_object for the
\* triangle of index triangle_index: the renderer after it and what became
\* of the triangle
RenderTriangle(sc, obj, triangle_index, world_vertices, world_normals, view_matrix, proj_matrix, r) ==
    LET triangle == obj.mesh.triangles[triangle_index + 1]
        v0_world == Vertex(world_vertices, triangle.indices[1])
        v1_world == Vertex(world_vertices, triangle.indices[2])
        v2_world == Vertex(world_vertices, triangle.indices[3])
    IN
    Let2(IF triangle_index < Len(world_normals) THEN world_normals[triangle_index + 1]
         ELSE calculate_triangle_normal(v0_world, v1_world, v2_world),
         Round3(Vec3(FDiv(FAdd(FAdd(v0_world[1], v1_world[1]), v2_world[1]), I(3)),
                     FDiv(FAdd(FAdd(v0_world[2], v1_world[2]), v2_world[2]), I(3)),
                     FDiv(FAdd(FAdd(v0_world[3], v1_world[3]), v2_world[3]), I(3)))),
         LAMBDA world_normal, triangle_center :
    Let(Round3(Normalize3(Sub3(sc.camera.position, triangle_center)).out),
        LAMBDA view_direction :
    Let(Dot3(world_normal, view_direction), LAMBDA facing :
    IF BackFacing(facing)
    THEN [r |-> r, entry |-> [triangle_index |-> triangle_index, outcome |-> "culled",
                              facing |-> facing, world_normal |-> world_normal,
                              triangle_center |-> triangle_center]]
    ELSE
    Let3(Round3(multiply_point(view_matrix, v0_world)),
         Round3(multiply_point(view_matrix, v1_world)),
         Round3(multiply_point(view_matrix, v2_world)),
         LAMBDA v0_camera, v1_camera, v2_camera :
    LET entry(outcome) ==
            [triangle_index |-> triangle_index, outcome |-> outcome, facing |-> facing,
             world_normal |-> world_normal, triangle_center |-> triangle_center,
             camera_z |-> <<v0_camera[3], v1_camera[3], v2_camera[3]>>]
    IN
    IF OnOrBehindCameraPlane(v0_camera) \/ OnOrBehindCameraPlane(v1_camera)
       \/ OnOrBehindCameraPlane(v2_camera)
    THEN [r |-> r, entry |-> entry("behind")]
    ELSE
    Let3(project_to_screen(v0_camera, proj_matrix),
         project_to_screen(v1_camera, proj_matrix),
         project_to_screen(v2_camera, proj_matrix),
         LAMBDA screen0, screen1, screen2 :
    IF ~(screen0.some /\ screen1.some /\ screen2.some)
    THEN [r |-> r, entry |-> entry("rejected")]
    ELSE IF Len(obj.materials) = 0
    THEN [r |-> [r EXCEPT !.panic = TRUE], entry |-> entry("no material")]
    ELSE
    LET material_index == MaterialIndex(obj, triangle)
        material == obj.materials[material_index + 1]
    IN
    Let(calculate_lighting(sc.lighting, triangle_center, world_normal,
                           sc.camera.position, material), LAMBDA lit_color :
    Let(Triangle(screen0.p, screen1.p, screen2.p,
                 FloorTo(FDiv(FNeg(v0_camera[3]), I(100)), DepthScale),
                 FloorTo(FDiv(FNeg(v1_camera[3]), I(100)), DepthScale),
                 FloorTo(FDiv(FNeg(v2_camera[3]), I(100)), DepthScale),
                 vec3_to_color(lit_color)), LAMBDA t :
        [r |-> draw_triangle(r, t),
         entry |-> [triangle_index |-> triangle_index, outcome |-> "drawn",
                    facing |-> facing,
                    world_normal |-> world_normal, triangle_center |-> triangle_center,
                    camera_z |-> <<v0_camera[3], v1_camera[3], v2_camera[3]>>,
                    ndc |-> <<screen0.ndc, screen1.ndc, screen2.ndc>>,
                    material_index |-> material_index, t |-> t]])))))))

\* the triangle loop of Scene::render_game_object over the triangles of index
\* lo .. hi: the first half of them and then the second; a panic ends it
RECURSIVE RenderTriangles(_, _, _, _, _, _, _, _, _)
RenderTriangles(sc, obj, lo, hi, world_vertices, world_normals, view_matrix, proj_matrix, done) ==
    IF lo > hi \/ done.r.panic THEN done
    ELSE IF lo = hi
         THEN Let(RenderTriangle(sc, obj, lo, world_vertices, world_normals,
                                 view_matrix, proj_matrix, done.r), LAMBDA step :
                  [r |-> step.r, trace |-> Append(done.trace, step.entry)])
    ELSE Let(RenderTriangles(sc, obj, lo, (lo + hi) \div 2, world_vertices, world_normals,
                             view_matrix, proj_matrix, done), LAMBDA first :
             RenderTriangles(sc, obj, ((lo + hi) \div 2) + 1, hi, world_vertices,
                             world_normals, view_matrix, proj_matrix, first))

\* Scene::render_game_object
render_game_object(sc, obj, view_matrix, proj_matrix, r) ==
    Let2(get_model_matrix(obj), get_normal_matrix(obj), LAMBDA model_matrix, normal_matrix :
    Let2(transform_vertices(obj.mesh, model_matrix),
         transform_normals(obj.mesh, normal_matrix), LAMBDA world_vertices, world_normals :
        RenderTriangles(sc, obj, 0, Len(obj.mesh.triangles) - 1, world_vertices,
                        world_normals, view_matrix, proj_matrix,
                        [r |-> r, trace |-> <<>>])))

\* the object loop of Scene::render from the k-th object on
RECURSIVE RenderObjectsFrom(_, _, _, _, _, _)
RenderObjectsFrom(sc, k, view_matrix, proj_matrix, r, traces) ==
    IF k > Len(sc.game_objects) \/ r.panic THEN [r |-> r, traces |-> traces]
    ELSE Let(render_game_object(sc, sc.game_objects[k], view_matrix, proj_matrix, r),
             LAMBDA step :
         Let(Append(traces, step.trace), LAMBDA after :
             RenderObjectsFrom(sc, k + 1, view_matrix, proj_matrix, step.r, after)))

\* the passes of Scene::render over the renderer r
RenderPasses(sc, r) ==
    LET cam == set_aspect_ratio(sc.camera, I(Width), I(Height))
        sc1 == [sc EXCEPT !.camera = cam]
    IN  Let2(get_view_matrix(cam), get_projection_matrix(cam), LAMBDA view_matrix, proj_matrix :
        Let(RenderObjectsFrom(sc1, 1, view_matrix, proj_matrix, r, <<>>), LAMBDA drawn :
            [scene |-> sc1, r |-> drawn.r, traces |-> drawn.traces]))

\* Scene::render drawing over what the buffers hold
render_without_clear(sc, r) == RenderPasses(sc, r)

\* Scene::render: the scene, the renderer and what became of every triangle
render(sc, r) == Let(clear(r, Background), LAMBDA cleared : RenderPasses(sc, cleared))

\* Scene::add_game_object
add_game_object(sc, obj) == [sc EXCEPT !.game_objects = Append(@, obj)]

\* Scene::add_cube_at and Scene::add_triangle_at
add_cube_at(sc, position) ==
    LET shiny_material == Material_new(Vec3(Q(4, 5), Q(1, 5), Q(1, 5)),
                                       Vec3(Q(9, 10), Q(9, 10), Q(9, 10)), I(128))
        cube_object    == add_material(with_position(GameObject_new(create_cube), position),
                                       shiny_material)
    IN  add_game_object(sc, cube_object)

add_triangle_at(sc, position) ==
    add_game_object(sc, with_position(GameObject_new(create_triangle), position))

\* Scene::set_camera_position, Scene::set_camera_target and Scene::add_light
set_camera_position(sc, position) == [sc EXCEPT !.camera.position = position]

set_camera_target(sc, target) == [sc EXCEPT !.camera.target = target]

add_light_in_front(sc, light) == [sc EXCEPT !.lighting.lights = <<light>> \o @]

add_light(sc, light) == [sc EXCEPT !.lighting.lights = Append(@, light)]

\* the object at index i of the list with the rotation Scene::update gives it
Animated(obj, i, rotation_time) ==
    [obj EXCEPT !.rotation = Vec3(FAdd(FMul(rotation_time, Q(3, 10)), FMul(I(i), Q(1, 2))),
                                  FAdd(rotation_time, FMul(I(i), Q(1, 2))),
                                  obj.rotation[3])]

\* Scene::update, and an update that takes the time of the last frame for
\* the time since the start
Animate(sc, rotation_time) ==
    [sc EXCEPT !.rotation_time = rotation_time,
               !.game_objects = [k \in DOMAIN @ |-> Animated(@[k], k - 1, rotation_time)]]

update_to_last_delta(sc, delta_time) == Animate(sc, delta_time)

update(sc, delta_time) == Animate(sc, FAdd(sc.rotation_time, delta_time))

(***************************************************************************)
(* InputManager (src/src/input.rs)                                         *)
(***************************************************************************)
\* the Win32 virtual key codes of the keys the frame loop asks for
VK_W == 87

VK_A == 65

VK_S == 83

VK_D == 68

VK_SPACE == 32

VK_LSHIFT == 160

VK_ESCAPE == 27

\* the length of InputManager.keys_pressed
NumKeys == 256

\* InputManager::new; keys_pressed is the set of the codes whose entry is
\* true, and window_handle tells whether it is Some.  mouse_delta and
\* last_frame_time are written but never read by any method, and are left out
InputManager_new ==
    [keys_pressed |-> {}, mouse_captured |-> FALSE, window_handle |-> FALSE, delta_time |-> Zero]

\* InputManager::set_window_handle
set_window_handle(im) == [im EXCEPT !.window_handle = TRUE]

\* InputManager::toggle_mouse_capture
toggle_mouse_capture(im) ==
    IF im.window_handle THEN [im EXCEPT !.mouse_captured = ~@] ELSE im

\* InputManager::on_key_down and InputManager::on_key_up
on_key_down(im, vk_code) ==
    LET pressed == IF vk_code < NumKeys THEN [im EXCEPT !.keys_pressed = @ \cup {vk_code}] ELSE im
    IN  IF vk_code = VK_ESCAPE THEN toggle_mouse_capture(pressed) ELSE pressed

on_key_up(im, vk_code) ==
    IF vk_code < NumKeys THEN [im EXCEPT !.keys_pressed = @ \ {vk_code}] ELSE im

\* InputManager::is_key_pressed and InputManager::is_mouse_captured
is_key_pressed(im, vk_code) == vk_code < NumKeys /\ vk_code \in im.keys_pressed

is_mouse_captured(im) == im.mouse_captured

\* InputManager::get_mouse_delta: always Vec2f::zero()
get_mouse_delta(im) == Vec2(Zero, Zero)

\* InputManager::update, whose body is empty, and InputManager::get_delta_time
InputManager_update(im) == im

get_delta_time(im) == im.delta_time

\* Camera::get_forward_vector and Camera::look_in_direction
get_forward_vector(cam) == Round3(Normalize3(Sub3(cam.target, cam.position)).out)

look_in_direction(cam, direction) ==
    [cam EXCEPT !.target = Add3(cam.position, Round3(Normalize3(direction).out))]

\* the window before main has created it: its update region is empty, its
\* frame timer is not set, and nothing has been copied to it
NoWindow ==
    [open |-> FALSE, invalid |-> FALSE, timer_due |-> FALSE, clock |-> 0, tick_clock |-> 0,
     dt |-> Zero, updates |-> 0, messages |-> 0, display |-> <<>>]
VARIABLES
    framebuffer,   \* Renderer.framebuffer: pixel index -> u32
    z_buffer,      \* Renderer.z_buffer: pixel index -> f32
    panicked,      \* TRUE once an index out of bounds has aborted the program
    nonFinite,     \* TRUE if the last call made an inside test on a NaN or infinite weight
    lastCall,      \* the last call made and its arguments
    history,       \* the drawing calls made since the buffers were last cleared
    background,    \* the colour the framebuffer was last cleared to
    vecIn,         \* the argument a vector or lighting operation is applied to, or the
                   \* delta times Scene::update has been given
    vecOut,        \* what the operation returned, once it has been applied
    matIn,         \* the matrix Mat4x4::inverse is applied to
    matOut,        \* what inverse returned, once it has been applied
    scene,         \* the Scene: game_objects, camera, lighting, rotation_time
    rendered,      \* what the last Scene::render did with every triangle
    input,         \* the InputManager of the window
    window         \* the window: its update region, its frame timer, what it shows

(***************************************************************************)
(* The Renderer as a state machine: the calls a client makes on one        *)
(* Renderer, from Renderer::new on.                                        *)
(***************************************************************************)
\* the longest sequence of drawing calls followed between two clears
MaxOps == 2

Colors == {Red, Green}

\* pixel coordinates on the screen and one step off it on every side
Xs == -1 .. Width

Ys == -1 .. Height

\* the first and the last coordinate on the screen and the first off it on either side
EdgeXs == {-1, 0, Width - 1, Width}

EdgeYs == {-1, 0, Height - 1, Height}

Pt(x, y) == Vec2(I(x), I(y))

NoTriangle == Triangle(Pt(0, 0), Pt(0, 0), Pt(0, 0), Zero, Zero, Zero, Black)

\* a call: its name, its arguments and the number of drawing calls made
\* between the last clear and it
Call(op, x, y, color, t, n) ==
    [op |-> op, x |-> x, y |-> y, color |-> color, t |-> t, n |-> n]

\* the depths given to the vertices of a triangle: level, rising and falling
DepthProfiles == {<<I(1), I(1), I(1)>>, <<I(1), I(2), I(3)>>, <<I(3), I(2), I(1)>>}

\* the triangles drawn one after another: the two halves of the screen, a
\* triangle reaching off the screen and a triangle without area, each in a
\* colour of its own
SeqShapes == {<<Pt(0, 0), Pt(Width - 1, 0), Pt(0, Height - 1), Green>>,
              <<Pt(Width - 1, Height - 1), Pt(0, Height - 1), Pt(Width - 1, 0), Red>>,
              <<Pt(0, 0), Pt(Width, 0), Pt(0, Height), Red>>,
              <<Pt(0, 0), Pt(1, 1), Pt(Width - 1, Height - 1), Green>>}

SeqTriangles ==
    {Triangle(s[1], s[2], s[3], z[1], z[2], z[3], s[4]) : s \in SeqShapes, z \in DepthProfiles}

\* the pixels set: the corners of the screen and the first pixel off it on
\* every side (-1 is 0xFFFFFFFF as a u32)
SetPixelArgs == {<<0, 0>>, <<Width - 1, Height - 1>>, <<Width, 0>>, <<0, Height>>,
                 <<-1, 0>>, <<Width - 1, -1>>}

\* the triangles drawn alone: the first vertex anywhere on the pixel grid, on or
\* just off the screen, the other two at the edges, with rising depths
AllTriangles ==
    {Triangle(Pt(a[1], a[2]), Pt(b[1], b[2]), Pt(c[1], c[2]), z[1], z[2], z[3], Red) :
        a \in Xs \X Ys, b \in EdgeXs \X EdgeYs, c \in EdgeXs \X EdgeYs,
        z \in {<<I(1), I(2), I(3)>>}}

TheRenderer ==
    [fb |-> framebuffer, zb |-> z_buffer, panic |-> panicked, nonfin |-> FALSE]

SetRenderer(r) ==
    /\ framebuffer' = r.fb
    /\ z_buffer' = r.zb
    /\ panicked' = r.panic
    /\ nonFinite' = r.nonfin

rendererVars == <<framebuffer, z_buffer, panicked, nonFinite, lastCall, history, background>>

mathVars == <<vecIn, vecOut, matIn, matOut>>

sceneVars == <<scene, rendered>>

windowVars == <<input, window>>

vars == <<rendererVars, mathVars, sceneVars, windowVars>>

\* no operation applied yet
NotApplied == [op |-> "none"]

InitRenderer ==
    /\ framebuffer = NewRenderer.fb
    /\ z_buffer = NewRenderer.zb
    /\ panicked = NewRenderer.panic
    /\ nonFinite = NewRenderer.nonfin
    /\ lastCall = Call("new", AsU32(0), AsU32(0), Black, NoTriangle, 0)
    /\ history = <<>>
    /\ background = Black

InitMath ==
    /\ vecIn = <<>>
    /\ vecOut = NotApplied
    /\ matIn = Identity
    /\ matOut = NotApplied

InitScene ==
    /\ scene = Scene_new
    /\ rendered = <<>>

\* the window before main has set it up
InitWindow ==
    /\ input = InputManager_new
    /\ window = NoWindow

Init == InitRenderer /\ InitMath /\ InitScene /\ InitWindow

\* a call of Renderer::clear
Clear(color) ==
    /\ ~panicked
    /\ SetRenderer(clear(TheRenderer, color))
    /\ lastCall' = Call("clear", AsU32(0), AsU32(0), color, NoTriangle, Len(history))
    /\ history' = <<>>
    /\ background' = color
    /\ UNCHANGED <<mathVars, sceneVars, windowVars>>

\* a call of Renderer::set_pixel
SetPixel(x, y, color) ==
    /\ ~panicked
    /\ Len(history) < MaxOps
    /\ SetRenderer(set_pixel(TheRenderer, x, y, color))
    /\ lastCall' = Call("set_pixel", x, y, color, NoTriangle, Len(history))
    /\ history' = Append(history, lastCall')
    /\ UNCHANGED <<background, mathVars, sceneVars, windowVars>>

\* a call of Renderer::draw_triangle
DrawTriangle(t) ==
    /\ ~panicked
    /\ Len(history) < MaxOps
    /\ SetRenderer(draw_triangle(TheRenderer, t))
    /\ lastCall' = Call("draw_triangle", AsU32(0), AsU32(0), t.color, t, Len(history))
    /\ history' = Append(history, lastCall')
    /\ UNCHANGED <<background, mathVars, sceneVars, windowVars>>

Next ==
    \/ \E c \in Colors : Clear(c)
    \/ \E p \in SetPixelArgs : SetPixel(AsU32(p[1]), AsU32(p[2]), Blue)
    \/ \E t \in SeqTriangles : DrawTriangle(t)

Spec == Init /\ [][Next]_vars

\* one draw_triangle call on a new Renderer
NextDraw == lastCall.op = "new" /\ \E t \in AllTriangles : DrawTriangle(t)

SpecDraw == Init /\ [][NextDraw]_vars

(***************************************************************************)
(* The math kernel: one operation applied to one argument                  *)
(***************************************************************************)
\* the components of the vectors normalized
VecComps == {-3, 0, 1, 4}

VecInputs ==
    {Vec2(I(a[1]), I(a[2])) : a \in VecComps \X VecComps}
    \cup {Vec3(I(a[1]), I(a[2]), I(a[3])) : a \in VecComps \X VecComps \X VecComps}
    \cup {Vec4(I(a[1]), I(a[2]), I(a[3]), I(a[4])) :
             a \in VecComps \X VecComps \X VecComps \X VecComps}

InitVec ==
    /\ InitRenderer
    /\ vecIn \in VecInputs
    /\ vecOut = NotApplied
    /\ matIn = Identity
    /\ matOut = NotApplied
    /\ InitScene
    /\ InitWindow

Applied(op, r) == [op |-> op, out |-> r.out, divisors |-> r.divisors]

\* a call of Vec2f::normalize
Vec2Normalize ==
    /\ Len(vecIn) = 2 /\ vecOut.op = "none"
    /\ vecOut' = Applied("normalize", Normalize2(vecIn))
    /\ UNCHANGED <<rendererVars, vecIn, matIn, matOut, sceneVars, windowVars>>

\* a call of Vec3f::normalize
Vec3Normalize ==
    /\ Len(vecIn) = 3 /\ vecOut.op = "none"
    /\ vecOut' = Applied("normalize", Normalize3(vecIn))
    /\ UNCHANGED <<rendererVars, vecIn, matIn, matOut, sceneVars, windowVars>>

\* a call of Vec4f::normalize
Vec4Normalize ==
    /\ Len(vecIn) = 4 /\ vecOut.op = "none"
    /\ vecOut' = Applied("normalize", Normalize4(vecIn))
    /\ UNCHANGED <<rendererVars, vecIn, matIn, matOut, sceneVars, windowVars>>

NextVec == Vec2Normalize \/ Vec3Normalize \/ Vec4Normalize

SpecVec == InitVec /\ [][NextVec]_vars

\* the rows the matrices inverted are made of
MatRows == {<<2, 1, 0, 0>>, <<1, 3, 0, 0>>, <<0, 0, 1, 2>>, <<0, 1, 0, -1>>,
            <<0, 0, 0, 0>>, <<1, 2, 3, 4>>}

\* the matrices are the rows taken as they are and scaled by 10^-11
MatExponents == {0, 11}

MatOf(rows, e) ==
    [i \in MatIndex |->
        LET n == rows[(i \div 4) + 1][(i % 4) + 1]
        IN  IF n = 0 THEN Zero ELSE <<n, 1, e>>]

MatInputs ==
    {MatOf(rows, e) : rows \in MatRows \X MatRows \X MatRows \X MatRows, e \in MatExponents}

InitMat ==
    /\ InitRenderer
    /\ vecIn = <<>>
    /\ vecOut = NotApplied
    /\ matIn \in MatInputs
    /\ matOut = NotApplied
    /\ InitScene
    /\ InitWindow

\* a call of Mat4x4::inverse
MatInverse ==
    /\ matOut.op = "none"
    /\ matOut' = [op |-> "inverse", inv |-> Inverse(matIn)]
    /\ UNCHANGED <<rendererVars, vecIn, vecOut, matIn, sceneVars, windowVars>>

NextMat == MatInverse

SpecMat == InitMat /\ [][NextMat]_vars

(***************************************************************************)
(* The Scene as a state machine: a client builds the scene and renders it  *)
(* into the Renderer, which it may also draw on directly between frames.   *)
(***************************************************************************)
\* the most game objects and the most lights a scene is given
MaxObjects == 1

MaxLights == 1

\* where a client puts a cube and a triangle; from the camera of Scene::new
\* the lower edge of the second triangle is seen at NDC y = -1
CubePositions == {Vec3(Zero, Zero, Zero)}

TrianglePositions == {Vec3(Zero, Zero, I(4)), Vec3(Zero, Q(-1, 8), Q(335, 64))}

\* the camera is put beyond the far plane of everything and into the plane of
\* the triangle; it is turned away from the scene and to its side
CameraPositions == {Vec3(Zero, Zero, I(120)), Vec3(I(3), Zero, I(4))}

CameraTargets == {Vec3(Zero, Zero, I(12)), Vec3(One, Zero, I(8))}

\* the first directional light of main.rs
SceneLights ==
    {Light_directional(Vec3(Q(-1, 2), I(-1), Q(-1, 2)), Vec3(One, Q(9, 10), Q(4, 5)), Q(4, 5))}

\* what a client draws between frames: a triangle over the upper left half,
\* nearer than anything the scene holds
NearTriangles ==
    {Triangle(Pt(0, 0), Pt(Width - 1, 0), Pt(0, Height - 1),
              Q(1, 100), Q(1, 100), Q(1, 100), Green)}

\* the entries of the traces of the objects from the k-th on, in drawing order
RECURSIVE FlattenTraces(_, _)
FlattenTraces(traces, k) ==
    IF k > Len(traces) THEN <<>> ELSE traces[k] \o FlattenTraces(traces, k + 1)

\* the draw_triangle calls a render made, as entries of history
DrawCalls(traces) ==
    LET entries == FlattenTraces(traces, 1)
        drawn   == SelectSeq(entries, LAMBDA e : e.outcome = "drawn")
    IN  [k \in DOMAIN drawn |->
            Call("draw_triangle", AsU32(0), AsU32(0), drawn[k].t.color, drawn[k].t, k - 1)]

\* a call on the Scene that leaves the Renderer alone
SceneCall(op, sc) ==
    /\ ~panicked
    /\ scene' = sc
    /\ lastCall' = Call(op, AsU32(0), AsU32(0), Black, NoTriangle, Len(history))
    /\ UNCHANGED <<framebuffer, z_buffer, panicked, nonFinite, history, background,
                   mathVars, rendered, windowVars>>

\* calls of Scene::add_cube_at, add_triangle_at, add_light,
\* set_camera_position and set_camera_target
AddCubeAt(position) ==
    SceneCall("add_cube_at", add_cube_at(scene, position))

AddTriangleAt(position) ==
    SceneCall("add_triangle_at", add_triangle_at(scene, position))

AddLight(light) ==
    SceneCall("add_light", add_light(scene, light))

SetCameraPosition(position) ==
    SceneCall("set_camera_position", set_camera_position(scene, position))

SetCameraTarget(target) ==
    SceneCall("set_camera_target", set_camera_target(scene, target))

\* the state a finished render pass leaves
RenderDone(done) ==
    /\ SetRenderer(done.r)
    /\ scene' = done.scene
    /\ rendered' = done.traces
    /\ history' = DrawCalls(done.traces)

\* a call of Scene::render
Render ==
    /\ ~panicked
    /\ RenderDone(render(scene, TheRenderer))
    /\ lastCall' = Call("render", AsU32(0), AsU32(0), Background, NoTriangle, Len(history))
    /\ background' = Background
    /\ UNCHANGED <<mathVars, windowVars>>

\* the scene is given its objects and lights before its first frame, as
\* main.rs does: there is room for an object, and for a light
RoomForObject == rendered = <<>> /\ Len(scene.game_objects) < MaxObjects

RoomForLight == rendered = <<>> /\ Len(scene.lighting.lights) < MaxLights

NextScene ==
    \/ \E p \in CubePositions : RoomForObject /\ AddCubeAt(p)
    \/ \E p \in TrianglePositions : RoomForObject /\ AddTriangleAt(p)
    \/ \E l \in SceneLights : RoomForLight /\ AddLight(l)
    \/ \E p \in CameraPositions : SetCameraPosition(p)
    \/ \E p \in CameraTargets : SetCameraTarget(p)
    \/ Render
    \/ \E t \in NearTriangles : DrawTriangle(t)

SpecScene == Init /\ [][NextScene]_vars

(***************************************************************************)
(* One draw_line call on a new Renderer, followed pass by pass through its *)
(* loop                                                                    *)
(***************************************************************************)
\* the passes through the loop followed
MaxLineSteps == Width + Height + 2

Line(x0, y0, x1, y1, color) == [x0 |-> x0, y0 |-> y0, x1 |-> x1, y1 |-> y1, color |-> color]

\* the lines between all points on the screen and one step off it
ScreenLines == {Line(a[1], a[2], b[1], b[2], Green) : a \in Xs \X Ys, b \in Xs \X Ys}

\* lines as long as an i32 lets them be
LongLines == {Line(0, 0, MaxI32, 0, Green), Line(MinI32, 0, MaxI32, 0, Green),
              Line(0, 0, 1, MinI32, Green), Line(0, MaxI32, 0, -1, Green)}

\* the build: with overflow checks (debug) and without (release)
OverflowChecks == {TRUE, FALSE}

InitLine ==
    /\ InitRenderer
    /\ vecIn \in {[call |-> "draw_line", line |-> l, checked |-> c] :
                     l \in ScreenLines \cup LongLines, c \in OverflowChecks}
    /\ vecOut = NotApplied
    /\ matIn = Identity
    /\ matOut = NotApplied
    /\ InitScene
    /\ InitWindow

\* draw_line is entered: its locals are set
LineEnter ==
    /\ vecOut.op = "none"
    /\ vecOut' = [op |-> "draw_line", l |-> LineLocals(vecIn.line, vecIn.checked),
                  visited |-> <<>>]
    /\ UNCHANGED <<rendererVars, vecIn, matIn, matOut, sceneVars, windowVars>>

\* one pass through the loop: set_pixel, then the break or the step
LinePass ==
    /\ vecOut.op = "draw_line"
    /\ vecOut.l.status = "running"
    /\ Len(vecOut.visited) < MaxLineSteps
    /\ SetRenderer(set_pixel(TheRenderer, AsU32(vecOut.l.x), AsU32(vecOut.l.y), vecOut.l.color))
    /\ vecOut' = [vecOut EXCEPT !.l = LineStep(@),
                                !.visited = Append(@, <<vecOut.l.x, vecOut.l.y>>)]
    /\ UNCHANGED <<lastCall, history, background, vecIn, matIn, matOut, sceneVars, windowVars>>

NextLine == LineEnter \/ LinePass

SpecLine == InitLine /\ [][NextLine]_vars

(***************************************************************************)
(* The Renderer with its lines: clear, set_pixel, draw_triangle and        *)
(* draw_line calls on one Renderer                                         *)
(***************************************************************************)
\* the lines drawn between other calls: a diagonal of the screen and a row
\* from one step left of the screen to one step right of it
SeqLines == {Line(0, 0, Width - 1, Height - 1, Blue), Line(-1, 1, Width, 1, Blue)}

\* a call of Renderer::draw_line
DrawLine(line, checked) ==
    /\ ~panicked
    /\ Len(history) < MaxOps
    /\ SetRenderer(draw_line(TheRenderer, line, checked))
    /\ lastCall' = Call("draw_line", AsU32(line.x0), AsU32(line.y0), line.color, NoTriangle,
                        Len(history))
    /\ history' = Append(history, lastCall')
    /\ UNCHANGED <<background, mathVars, sceneVars, windowVars>>

NextLines ==
    \/ Next
    \/ \E l \in SeqLines, c \in OverflowChecks : DrawLine(l, c)

SpecLines == Init /\ [][NextLines]_vars

(***************************************************************************)
(* The lights: one constructor or one lighting calculation applied to its  *)
(* arguments                                                               *)
(***************************************************************************)
\* the directions lights are given: every vector of these components, the
\* zero vector among them
LightDirections == {Vec3(I(a[1]), I(a[2]), I(a[3])) : a \in VecComps \X VecComps \X VecComps}

\* the <<inner_angle, outer_angle>> spot lights are given, in radians
SpotAngles == {<<Q(1, 4), Q(1, 2)>>, <<Q(1, 2), Q(1, 2)>>, <<Q(1, 2), Q(1, 4)>>}

White == Vec3(One, One, One)

\* a call of a function of lighting.rs and its arguments
LightCall(call, args) == [call |-> call, args |-> args]

ConstructorInputs ==
    {LightCall("Light::directional", [direction |-> d]) : d \in LightDirections}
    \cup {LightCall("Light::spot", [direction |-> d, inner_angle |-> a[1], outer_angle |-> a[2]]) :
             d \in LightDirections, a \in SpotAngles}

\* a call of Light::directional
LightDirectional ==
    /\ vecIn.call = "Light::directional" /\ vecOut.op = "none"
    /\ vecOut' = [op |-> "Light::directional",
                  light |-> Light_directional(vecIn.args.direction, White, One)]
    /\ UNCHANGED <<rendererVars, vecIn, matIn, matOut, sceneVars, windowVars>>

\* a call of Light::spot
LightSpot ==
    /\ vecIn.call = "Light::spot" /\ vecOut.op = "none"
    /\ vecOut' = [op |-> "Light::spot",
                  light |-> Light_spot(Zero3, vecIn.args.direction, White, One, I(10),
                                       vecIn.args.inner_angle, vecIn.args.outer_angle)]
    /\ UNCHANGED <<rendererVars, vecIn, matIn, matOut, sceneVars, windowVars>>

\* the lights whose light is calculated: a directional light shining down the
\* z axis; point lights on the z axis and off it, with ranges short of,
\* at and beyond the origin; spot lights above the origin that point at it,
\* past it and away from it, and one that points at (-4, -4, 2)
ShadeLights ==
    {Light_directional(Vec3(Zero, Zero, I(-1)), White, One)}
    \cup {Light_point(p, White, One, I(r)) :
             p \in {Zero3, Vec3(Zero, Zero, I(1)), Vec3(Zero, Zero, I(2)),
                    Vec3(Zero, Zero, I(3)), Vec3(I(3), I(4), Zero)},
             r \in {0, 2, 5}}
    \cup {Light_spot(Vec3(Zero, Zero, I(4)), d, White, One, I(r), a[1], a[2]) :
             d \in {Vec3(Zero, Zero, I(-1)), Vec3(One, Zero, I(-1)), Vec3(Zero, Zero, One)},
             a \in {<<Q(1, 4), Q(1, 2)>>, <<Q(1, 2), One>>},
             r \in {2, 5}}
    \cup {Light_spot(Vec3(Zero, Zero, I(4)), Vec3(I(-4), I(-4), I(-2)), White, One, I(10),
                     Q(1, 4), Q(1, 2))}

SurfacePoints ==
    {Zero3, Vec3(I(2), Zero, Zero), Vec3(I(4), Zero, Zero), Vec3(I(-4), I(-4), I(2))}

\* a normal towards the lights, one away from them and the zero-length normal
SurfaceNormals == {Vec3(Zero, Zero, One), Vec3(Zero, Zero, I(-1)), Zero3}

ViewPositions == {Vec3(Zero, Zero, I(5)), Vec3(I(3), Zero, I(4))}

\* the default material and one that differs from it in its specular power only
ShadeMaterials ==
    {Material_default, Material_new(White, Vec3(Q(3, 10), Q(3, 10), Q(3, 10)), I(4))}

\* the ambient intensity of LightingSystem::new and one set by set_ambient
AmbientIntensities == {Q(1, 10), I(20)}

ShadeInputs ==
    {LightCall("calculate_lighting",
               [light |-> l, surface_point |-> p, surface_normal |-> n, camera_position |-> c,
                material |-> m, ambient_intensity |-> a]) :
        l \in ShadeLights, p \in SurfacePoints, n \in SurfaceNormals, c \in ViewPositions,
        m \in ShadeMaterials, a \in AmbientIntensities}

InitLight ==
    /\ InitRenderer
    /\ vecIn \in ConstructorInputs \cup ShadeInputs
    /\ vecOut = NotApplied
    /\ matIn = Identity
    /\ matOut = NotApplied
    /\ InitScene
    /\ InitWindow

\* the view direction LightingSystem::calculate_lighting passes to its lights
ViewDirection(args) ==
    Round3(Normalize3(Sub3(args.camera_position, args.surface_point)).out)

\* a LightingSystem of one light whose ambient intensity has been set
LightingOf(args) ==
    [set_ambient(LightingSystem_new, White, args.ambient_intensity)
        EXCEPT !.lights = <<args.light>>]

\* a call of Light::calculate_lighting
LightCalculateLighting ==
    /\ vecIn.call = "calculate_lighting" /\ vecOut.op = "none"
    /\ vecOut' = [op |-> "Light::calculate_lighting",
                  out |-> Light_calculate_lighting(vecIn.args.light, vecIn.args.surface_point,
                                                   vecIn.args.surface_normal,
                                                   ViewDirection(vecIn.args))]
    /\ UNCHANGED <<rendererVars, vecIn, matIn, matOut, sceneVars, windowVars>>

\* a call of LightingSystem::calculate_lighting
CalculateLighting ==
    /\ vecIn.call = "calculate_lighting" /\ vecOut.op = "none"
    /\ vecOut' = [op |-> "LightingSystem::calculate_lighting",
                  out |-> calculate_lighting(LightingOf(vecIn.args), vecIn.args.surface_point,
                                             vecIn.args.surface_normal,
                                             vecIn.args.camera_position, vecIn.args.material)]
    /\ UNCHANGED <<rendererVars, vecIn, matIn, matOut, sceneVars, windowVars>>

NextLight == LightDirectional \/ LightSpot \/ LightCalculateLighting \/ CalculateLighting

SpecLight == InitLight /\ [][NextLight]_vars

(***************************************************************************)
(* Game objects and their materials: a client builds an object around a    *)
(* mesh of its own, adds it to the scene, gives it materials and renders.  *)
(***************************************************************************)
\* the most materials an object is given after GameObject::new
MaxMaterials == 2

\* the material ids the triangle of the mesh is given: below, at and beyond
\* the number of materials an object ever has
MaterialIds == {0, 1, MaxMaterials + 1}

\* Mesh::new, three add_vertex and one add_triangle: the triangle of
\* create_triangle, with a material id or without one
MaterialMeshes ==
    {create_triangle}
    \cup {[create_triangle EXCEPT !.triangles = <<Triangle_with_material(0, 1, 2, Red, id)>>] :
             id \in MaterialIds}

\* GameObject::new and the with_ calls made on it
MaterialObjects ==
    {with_scale(with_rotation(with_position(GameObject_new(mesh), p), Zero3), Vec3(s, s, One)) :
        mesh \in MaterialMeshes, p \in {Zero3, Vec3(Zero, Zero, I(4))}, s \in {One, Q(1, 2)}}

AddedMaterials ==
    {Material_new(Vec3(Q(4, 5), Q(1, 5), Q(1, 5)), Vec3(Q(9, 10), Q(9, 10), Q(9, 10)), I(128)),
     Material_new(Vec3(Q(1, 5), Q(4, 5), Q(1, 5)), Vec3(Q(1, 10), Q(1, 10), Q(1, 10)), I(8))}

\* a call of Scene::add_game_object
AddGameObject(obj) ==
    /\ rendered = <<>>
    /\ Len(scene.game_objects) < MaxObjects
    /\ SceneCall("add_game_object", add_game_object(scene, obj))

\* a call of GameObject::add_material on the k-th object of the scene
AddMaterial(k, material) ==
    /\ rendered = <<>>
    /\ k \in DOMAIN scene.game_objects
    /\ Len(scene.game_objects[k].materials) <= MaxMaterials
    /\ SceneCall("add_material",
                 [scene EXCEPT !.game_objects[k] = add_material(@, material)])

NextMaterial ==
    \/ \E obj \in MaterialObjects : AddGameObject(obj)
    \/ \E k \in 1 .. MaxObjects, m \in AddedMaterials : AddMaterial(k, m)
    \/ Render

SpecMaterial == Init /\ [][NextMaterial]_vars

(***************************************************************************)
(* The camera: a client places the camera of a new Scene and moves it      *)
(***************************************************************************)
\* how far from the origin, along every axis, the camera is moved
MaxReach == 2

\* where the camera is placed and what it looks at: along an axis, along a
\* direction whose length is rational, along one whose length is not, and at
\* its own position
CameraPlacements == {<<Vec3(Zero, Zero, I(2)), Zero3>>,
                     <<Zero3, Vec3(I(3), Zero, I(4))>>,
                     <<Zero3, Vec3(One, Zero, One)>>,
                     <<Vec3(One, One, One), Vec3(One, One, One)>>}

MoveDistances == {One, Q(-1, 2)}

InitCamera ==
    /\ InitRenderer
    /\ InitMath
    /\ scene \in {set_camera_target(set_camera_position(Scene_new, c[1]), c[2]) :
                     c \in CameraPlacements}
    /\ rendered = <<>>
    /\ InitWindow

WithinReach(v) == \A i \in 1 .. 3 : FLe(FAbs(v[i]), I(MaxReach))

\* a call of one of the movement helpers that has moved the camera to cam
MoveCamera(op, cam) ==
    /\ WithinReach(cam.position)
    /\ SceneCall(op, [scene EXCEPT !.camera = cam])

MoveForward(distance) == MoveCamera("move_forward", move_forward(scene.camera, distance))

MoveRight(distance) == MoveCamera("move_right", move_right(scene.camera, distance))

MoveUp(distance) == MoveCamera("move_up", move_up(scene.camera, distance))

NextCamera ==
    \/ \E d \in MoveDistances : MoveForward(d)
    \/ \E d \in MoveDistances : MoveRight(d)
    \/ \E d \in MoveDistances : MoveUp(d)

SpecCamera == InitCamera /\ [][NextCamera]_vars

(***************************************************************************)
(* The Scene between frames: a client adds objects and lights, moves the   *)
(* camera, and calls update and render in any order                        *)
(***************************************************************************)
MaxTickObjects == 2

MaxTickLights == 2

\* the number of update calls followed
MaxUpdates == 2

\* the number of objects added, lights added and updates made, together
MaxTickCalls == 3

\* the first two lights of main.rs
TickLights ==
    {Light_directional(Vec3(Q(-1, 2), I(-1), Q(-1, 2)), Vec3(One, Q(9, 10), Q(4, 5)), Q(4, 5)),
     Light_directional(Vec3(Q(1, 2), Zero, I(-1)), Vec3(Q(3, 5), Q(7, 10), One), Q(2, 5))}

\* the seconds a frame took
DeltaTimes == {Q(1, 4), Q(1, 2)}

\* the cube is put behind the camera, the triangle in front of it
TickCubePositions == {Vec3(Zero, Zero, I(20))}

TickCameraPositions == {Vec3(Zero, One, I(6))}

\* the camera keeps looking at the origin
TickCameraTargets == {Zero3}

\* there is room for another object, light or update
RoomForCall == Len(scene.game_objects) + Len(scene.lighting.lights) + Len(vecIn) < MaxTickCalls

\* a call of Scene::update
Update(delta_time) ==
    /\ ~panicked
    /\ scene' = update(scene, delta_time)
    /\ vecIn' = Append(vecIn, delta_time)
    /\ lastCall' = Call("update", AsU32(0), AsU32(0), Black, NoTriangle, Len(history))
    /\ UNCHANGED <<framebuffer, z_buffer, panicked, nonFinite, history, background,
                   vecOut, matIn, matOut, rendered, windowVars>>

\* one frame with objects in it is rendered, at any point of the sequence
NextTick ==
    \/ \E p \in TickCubePositions :
          RoomForCall /\ Len(scene.game_objects) < MaxTickObjects /\ AddCubeAt(p)
    \/ \E p \in TrianglePositions :
          RoomForCall /\ Len(scene.game_objects) < MaxTickObjects /\ AddTriangleAt(p)
    \/ \E l \in TickLights :
          RoomForCall /\ Len(scene.lighting.lights) < MaxTickLights /\ AddLight(l)
    \/ \E p \in TickCameraPositions : SetCameraPosition(p)
    \/ \E p \in TickCameraTargets : SetCameraTarget(p)
    \/ \E dt \in DeltaTimes : RoomForCall /\ Len(vecIn) < MaxUpdates /\ Update(dt)
    \/ rendered = <<>> /\ Render

SpecTick == Init /\ [][NextTick]_vars

(***************************************************************************)
(* The model matrix: a client builds a GameObject, takes its model matrix  *)
(* and transforms a point of the mesh with it                              *)
(***************************************************************************)
\* the angles, in half radians, an object is rotated by about each axis
MaxHalfTurns == 2

ModelAngles == {Q(k, 2) : k \in 0 .. MaxHalfTurns}

ModelPositions == {Zero3, Vec3(One, I(-2), I(3))}

ModelScales == {Vec3(One, One, One), Vec3(I(2), One, Q(1, 2))}

ModelPoints == {Vec3(One, Zero, Zero), Vec3(One, I(2), I(-1))}

ModelObjects ==
    {with_scale(with_rotation(with_position(GameObject_new(create_triangle), p),
                              Vec3(r[1], r[2], r[3])), s) :
        p \in ModelPositions, r \in ModelAngles \X ModelAngles \X ModelAngles, s \in ModelScales}

InitModel ==
    /\ InitRenderer
    /\ vecIn \in {[call |-> "GameObject::get_model_matrix", obj |-> o, point |-> p] :
                     o \in ModelObjects, p \in ModelPoints}
    /\ vecOut = NotApplied
    /\ matIn = Identity
    /\ matOut = NotApplied
    /\ InitScene
    /\ InitWindow

\* a call of GameObject::get_model_matrix
GetModelMatrix ==
    /\ matOut.op = "none"
    /\ matOut' = [op |-> "get_model_matrix", out |-> get_model_matrix(vecIn.obj)]
    /\ UNCHANGED <<rendererVars, vecIn, vecOut, matIn, sceneVars, windowVars>>

\* a call of Mat4x4::multiply_point on the model matrix
MultiplyPoint ==
    /\ matOut.op = "get_model_matrix"
    /\ vecOut.op = "none"
    /\ vecOut' = [op |-> "multiply_point", out |-> multiply_point(matOut.out, vecIn.point)]
    /\ UNCHANGED <<rendererVars, vecIn, matIn, matOut, sceneVars, windowVars>>

NextModel == GetModelMatrix \/ MultiplyPoint

SpecModel == InitModel /\ [][NextModel]_vars

(***************************************************************************)
(* The barycentric weights: a triangle with its vertices on pixel centres  *)
(* and a pixel centre are given to barycentric_coordinates                 *)
(***************************************************************************)
\* the pixel centres 0 .. MaxCoordX by 0 .. MaxCoordY
MaxCoordX == 2

MaxCoordY == 3

GridPoints == (0 .. MaxCoordX) \X (0 .. MaxCoordY)

InitBary ==
    /\ InitRenderer
    /\ vecIn \in {[call |-> "Renderer::barycentric_coordinates", p |-> p, v0 |-> v0, v1 |-> v1, v2 |-> v2] :
                     p \in GridPoints, v0 \in GridPoints, v1 \in GridPoints, v2 \in GridPoints}
    /\ vecOut = NotApplied
    /\ matIn = Identity
    /\ matOut = NotApplied
    /\ InitScene
    /\ InitWindow

Pt32(p) == <<F32(p[1]), F32(p[2])>>

\* a call of Renderer::barycentric_coordinates and the inside test of
\* draw_triangle on its result
BarycentricCoordinates ==
    /\ vecOut.op = "none"
    /\ Let(barycentric_coordinates_f32(Pt32(vecIn.p), Pt32(vecIn.v0), Pt32(vecIn.v1), Pt32(vecIn.v2)),
           LAMBDA bc : vecOut' = [op |-> "barycentric_coordinates", out |-> bc,
                                  inside |-> InsideTest32(bc)])
    /\ UNCHANGED <<rendererVars, vecIn, matIn, matOut, sceneVars, windowVars>>

NextBary == BarycentricCoordinates

SpecBary == InitBary /\ [][NextBary]_vars

(***************************************************************************)
(* The frame loop (src/src/main.rs): main creates the window and the       *)
(* scene, sets the frame timer and dispatches the messages of the window   *)
(* to wndproc.  GetMessage hands out a WM_PAINT when the update region of  *)
(* the window is not empty and nothing has been posted, and a WM_TIMER     *)
(* when the timer has elapsed and there is no WM_PAINT to hand out.        *)
(*                                                                         *)
(* window.clock is the time in milliseconds since InputManager::new,       *)
(* window.tick_clock the time of the last WM_TIMER, window.dt the delta    *)
(* time it gave to Scene::update, window.updates the number of update      *)
(* calls since the last render, window.messages the number of messages     *)
(* dispatched and window.display the framebuffer last copied to the        *)
(* window.                                                                 *)
(***************************************************************************)
\* the messages dispatched and the milliseconds followed
MaxMessages == 4

MaxClock == 3

\* the cubes of main.rs a frame is rendered with
MaxFrameCubes == 1

\* where main.rs puts its cubes
MainCubePositions == <<Vec3(I(-2), Zero, Zero), Vec3(I(2), Zero, Zero), Vec3(Zero, I(2), I(-2))>>

\* the two directional lights of main.rs
MainLights ==
    <<Light_directional(Vec3(Q(-1, 2), I(-1), Q(-1, 2)), Vec3(One, Q(9, 10), Q(4, 5)), Q(4, 5)),
      Light_directional(Vec3(Q(1, 2), Zero, I(-1)), Vec3(Q(3, 5), Q(7, 10), One), Q(2, 5))>>

RECURSIVE WithCubes(_, _)
WithCubes(sc, k) ==
    IF k = 0 THEN sc ELSE add_cube_at(WithCubes(sc, k - 1), MainCubePositions[k])

\* the scene main builds
MainScene == add_light(add_light(WithCubes(Scene_new, MaxFrameCubes), MainLights[1]), MainLights[2])

\* the keys that are pressed and released
FrameKeys == {VK_W, VK_ESCAPE}

\* the state main enters its message loop in: the window was created visible,
\* so the whole of it is to be painted
InitFrame ==
    /\ InitRenderer
    /\ InitMath
    /\ scene = MainScene
    /\ rendered = <<>>
    /\ input = set_window_handle(InputManager_new)
    /\ window = [NoWindow EXCEPT !.open = TRUE, !.invalid = TRUE]

Running == window.open /\ ~panicked /\ window.messages < MaxMessages

\* time passes: the frame timer of 1 ms elapses
TimePasses(ms) ==
    /\ window.open /\ ~panicked
    /\ window.clock + ms <= MaxClock
    /\ window' = [window EXCEPT !.clock = @ + ms, !.timer_due = TRUE]
    /\ UNCHANGED <<rendererVars, mathVars, sceneVars, input>>

\* the window is uncovered or resized: its update region is no longer empty
Expose ==
    /\ window.open /\ ~panicked
    /\ ~window.invalid
    /\ window' = [window EXCEPT !.invalid = TRUE]
    /\ UNCHANGED <<rendererVars, mathVars, sceneVars, input>>

\* wndproc on WM_KEYDOWN and on WM_KEYUP
WM_KEYDOWN(vk_code) ==
    /\ Running
    /\ input' = on_key_down(input, vk_code)
    /\ window' = [window EXCEPT !.messages = @ + 1]
    /\ lastCall' = Call("WM_KEYDOWN", AsU32(0), AsU32(0), Black, NoTriangle, Len(history))
    /\ UNCHANGED <<framebuffer, z_buffer, panicked, nonFinite, history, background,
                   mathVars, sceneVars>>

WM_KEYUP(vk_code) ==
    /\ Running
    /\ input' = on_key_up(input, vk_code)
    /\ window' = [window EXCEPT !.messages = @ + 1]
    /\ lastCall' = Call("WM_KEYUP", AsU32(0), AsU32(0), Black, NoTriangle, Len(history))
    /\ UNCHANGED <<framebuffer, z_buffer, panicked, nonFinite, history, background,
                   mathVars, sceneVars>>

\* the camera after the key tests of WM_TIMER: W, S, A, D, space and left
\* shift move it by 3.5 units a second
MoveByKeys(im, cam, dt) ==
    LET speed == Q(7, 2)
        w == IF is_key_pressed(im, VK_W) THEN move_forward(cam, FMul(speed, dt)) ELSE cam
        s == IF is_key_pressed(im, VK_S) THEN move_forward(w, FMul(FNeg(speed), dt)) ELSE w
        a == IF is_key_pressed(im, VK_A) THEN move_right(s, FMul(FNeg(speed), dt)) ELSE s
        d == IF is_key_pressed(im, VK_D) THEN move_right(a, FMul(speed, dt)) ELSE a
        up == IF is_key_pressed(im, VK_SPACE) THEN move_up(d, FMul(speed, dt)) ELSE d
    IN  IF is_key_pressed(im, VK_LSHIFT) THEN move_up(up, FMul(FNeg(speed), dt)) ELSE up

\* the mouse-look of WM_TIMER: get_mouse_delta returns zero, so yaw and
\* pitch are those of the forward vector and the new direction is the forward
\* vector again (a pitch within 0.001 of straight up or down is clamped,
\* which no camera here has)
MouseLook(im, cam) ==
    IF is_mouse_captured(im)
    THEN Strict(get_mouse_delta(im), look_in_direction(cam, get_forward_vector(cam)))
    ELSE cam

\* wndproc on WM_TIMER: input.update(), dt = input.get_delta_time(), the
\* camera is moved and turned, scene.update(dt), InvalidateRect
WM_TIMER ==
    /\ Running
    /\ window.timer_due /\ ~window.invalid
    /\ Let(InputManager_update(input), LAMBDA im :
       Let(get_delta_time(im), LAMBDA dt :
           /\ input' = im
           /\ scene' = update([scene EXCEPT !.camera = MouseLook(im, MoveByKeys(im, @, dt))], dt)
           /\ window' = [window EXCEPT !.timer_due = FALSE, !.invalid = TRUE,
                                       !.tick_clock = window.clock, !.dt = dt,
                                       !.updates = @ + 1, !.messages = @ + 1]))
    /\ lastCall' = Call("WM_TIMER", AsU32(0), AsU32(0), Black, NoTriangle, Len(history))
    /\ UNCHANGED <<framebuffer, z_buffer, panicked, nonFinite, history, background,
                   mathVars, rendered>>

\* wndproc on WM_PAINT: scene.render, SetDIBitsToDevice of the framebuffer,
\* ValidateRect; a render that panics ends the program before the copy
WM_PAINT ==
    /\ Running
    /\ window.invalid
    /\ Let(render(scene, TheRenderer), LAMBDA done :
           /\ RenderDone(done)
           /\ window' = IF done.r.panic THEN [window EXCEPT !.messages = @ + 1]
                        ELSE [window EXCEPT !.invalid = FALSE, !.display = done.r.fb,
                                            !.updates = 0, !.messages = @ + 1])
    /\ lastCall' = Call("WM_PAINT", AsU32(0), AsU32(0), Background, NoTriangle, Len(history))
    /\ background' = Background
    /\ UNCHANGED <<mathVars, input>>

NextFrame ==
    \/ \E ms \in 1 .. MaxClock : TimePasses(ms)
    \/ Expose
    \/ \E k \in FrameKeys : WM_KEYDOWN(k)
    \/ \E k \in FrameKeys : WM_KEYUP(k)
    \/ WM_TIMER
    \/ WM_PAINT

SpecFrame == InitFrame /\ [][NextFrame]_vars
(***************************************************************************)
(* Screen geometry used to state the properties                            *)
(***************************************************************************)
ScreenXs == 0 .. (Width - 1)

ScreenYs == 0 .. (Height - 1)

PixelIndex(x, y) == y * Width + x

VertexOnScreen(v) ==
    /\ FGe(v[1], Zero) /\ FLe(v[1], I(Width - 1))
    /\ FGe(v[2], Zero) /\ FLe(v[2], I(Height - 1))

OnScreen(t) == VertexOnScreen(t.v0) /\ VertexOnScreen(t.v1) /\ VertexOnScreen(t.v2)

\* twice the signed area of the triangle a, b, c
Area2(a, b, c) ==
    FSub(FMul(FSub(b[1], a[1]), FSub(c[2], a[2])),
         FMul(FSub(b[2], a[2]), FSub(c[1], a[1])))

Degenerate(t) == FEq(Area2(t.v0, t.v1, t.v2), Zero)

\* the pixel (x, y) passes the inside test of the triangle
Covers(t, x, y) == InsideTest(barycentric_coordinates(Pt(x, y), t.v0, t.v1, t.v2))

\* the depth of a triangle at (x, y): each vertex depth weighted by the weight
\* of its own vertex in P = a0*v0 + a1*v1 + a2*v2
DepthAt(t, x, y) ==
    LET area == Area2(t.v0, t.v1, t.v2)
        a0 == FDiv(Area2(Pt(x, y), t.v1, t.v2), area)
        a1 == FDiv(Area2(t.v0, Pt(x, y), t.v2), area)
        a2 == FDiv(Area2(t.v0, t.v1, Pt(x, y)), area)
    IN  FAdd(FAdd(FMul(a0, t.z0), FMul(a1, t.z1)), FMul(a2, t.z2))

(***************************************************************************)
(* C1: draw_triangle never reads or writes a buffer index outside          *)
(* 0 .. width*height - 1, whatever the screen coordinates of the triangle. *)
(* The code indexes z_buffer without a bounds test, so this fails.         *)
(***************************************************************************)
C1_NoIndexOutOfBounds == ~panicked

(***************************************************************************)
(* C2: set_pixel(x, y, color) sets framebuffer[y*width + x] to color when  *)
(* x < width and y < height and changes nothing otherwise; no other        *)
(* framebuffer entry and no depth entry changes.                           *)
(***************************************************************************)
C2_SetPixelWritesOnlyInBounds ==
    [][lastCall'.op = "set_pixel" =>
        LET x == lastCall'.x
            y == lastCall'.y
        IN  /\ z_buffer' = z_buffer
            /\ ~panicked'
            /\ IF x[1] = 0 /\ x[2] < Width /\ y[1] = 0 /\ y[2] < Height
               THEN /\ framebuffer'[y[2] * Width + x[2]] = lastCall'.color
                    /\ \A i \in Pixels \ {y[2] * Width + x[2]} :
                          framebuffer'[i] = framebuffer[i]
               ELSE framebuffer' = framebuffer]_vars

C2_Witness ==
    /\ lastCall.op = "set_pixel"
    /\ lastCall.n >= 1
    /\ lastCall.x = AsU32(Width - 1) /\ lastCall.y = AsU32(Height - 1)
    /\ framebuffer[NumPixels - 1] = lastCall.color
    /\ framebuffer[0] # lastCall.color

(***************************************************************************)
(* C3: from a freshly cleared Renderer, two on-screen triangles A and B    *)
(* whose depths differ at every pixel both cover give the same framebuffer *)
(* in either drawing order, and every pixel both cover holds the colour of *)
(* the triangle with the smaller depth there.  The depth the code compares *)
(* is not the depth of the triangle at the pixel (C4), so this fails.      *)
(***************************************************************************)
C3_DepthTestOrderIndependent ==
    (/\ Len(history) = 2
     /\ history[1].op = "draw_triangle" /\ history[2].op = "draw_triangle"
     /\ OnScreen(history[1].t) /\ OnScreen(history[2].t)
     /\ ~Degenerate(history[1].t) /\ ~Degenerate(history[2].t)
     /\ \A x \in ScreenXs, y \in ScreenYs :
           Covers(history[1].t, x, y) /\ Covers(history[2].t, x, y)
              => ~FEq(DepthAt(history[1].t, x, y), DepthAt(history[2].t, x, y)))
    => LET A == history[1].t
           B == history[2].t
           fresh == clear(NewRenderer, background)
       IN  /\ framebuffer = draw_triangle(draw_triangle(fresh, B), A).fb
           /\ \A x \in ScreenXs, y \in ScreenYs :
                 Covers(A, x, y) /\ Covers(B, x, y)
                    => framebuffer[PixelIndex(x, y)] =
                          IF FLt(DepthAt(A, x, y), DepthAt(B, x, y))
                          THEN A.color ELSE B.color

(***************************************************************************)
(* C4: the depth draw_triangle computes at a pixel weights every vertex    *)
(* depth with the weight of its own vertex, so the depth at a pixel that   *)
(* lies on vertex vi is zi.  The code pairs the weight of v2 with z0 and   *)
(* the weight of v0 with z2, so this fails.                                *)
(***************************************************************************)
C4_DepthPairedWithOwnVertex ==
    (/\ lastCall.op = "draw_triangle" /\ lastCall.n = 0
     /\ OnScreen(lastCall.t) /\ ~Degenerate(lastCall.t))
    => \A x \in ScreenXs, y \in ScreenYs :
          Covers(lastCall.t, x, y)
             => FEq(z_buffer[PixelIndex(x, y)], DepthAt(lastCall.t, x, y))

(***************************************************************************)
(* C5: draw_triangle on a triangle without area detects the zero           *)
(* denominator and skips the triangle: no pixel and no depth changes and   *)
(* no inside test is made on an undefined weight.  The code divides by the *)
(* zero denominator and tests the resulting weights, so this fails.        *)
(***************************************************************************)
C5_DegenerateTriangleSkipped ==
    [][(lastCall'.op = "draw_triangle" /\ Degenerate(lastCall'.t))
        => (framebuffer' = framebuffer /\ z_buffer' = z_buffer /\ ~nonFinite')]_vars

(***************************************************************************)
(* C6: after clear(color), from any renderer state, every framebuffer      *)
(* entry is color, every depth entry is +infinity and both buffers have    *)
(* width*height entries.                                                   *)
(***************************************************************************)
C6_ClearResetsBothBuffers ==
    lastCall.op = "clear" =>
        /\ DOMAIN framebuffer = Pixels /\ DOMAIN z_buffer = Pixels
        /\ Cardinality(Pixels) = Width * Height
        /\ \A i \in Pixels : framebuffer[i] = lastCall.color /\ z_buffer[i] = PosInf

C6_Witness ==
    /\ lastCall.op = "clear"
    /\ lastCall.n = MaxOps
    /\ lastCall.color = Green
    /\ framebuffer[0] = Green

(***************************************************************************)
(* Matrices and vectors used to state the properties                       *)
(***************************************************************************)
\* the determinant of the 3x3 minor on rows 1, 2, 3 and the columns c
Det3(m, c) ==
    FAdd(FSub(FMul(Get(m, 1, c[1]),
                   FSub(FMul(Get(m, 2, c[2]), Get(m, 3, c[3])),
                        FMul(Get(m, 2, c[3]), Get(m, 3, c[2])))),
              FMul(Get(m, 1, c[2]),
                   FSub(FMul(Get(m, 2, c[1]), Get(m, 3, c[3])),
                        FMul(Get(m, 2, c[3]), Get(m, 3, c[1]))))),
         FMul(Get(m, 1, c[3]),
              FSub(FMul(Get(m, 2, c[1]), Get(m, 3, c[2])),
                   FMul(Get(m, 2, c[2]), Get(m, 3, c[1])))))

\* the determinant, expanded along row 0
Det4(m) ==
    FSub(FAdd(FSub(FMul(Get(m, 0, 0), Det3(m, <<1, 2, 3>>)),
                   FMul(Get(m, 0, 1), Det3(m, <<0, 2, 3>>))),
              FMul(Get(m, 0, 2), Det3(m, <<0, 1, 3>>))),
         FMul(Get(m, 0, 3), Det3(m, <<0, 1, 2>>)))

Invertible(m) == ~FEq(Det4(m), Zero)

IsIdentity(m) == \A i \in MatIndex : FEq(m[i], Identity[i])

HasZeroRow(m) == \E r \in 0 .. 3 : \A c \in 0 .. 3 : FEq(Get(m, r, c), Zero)

HasIdenticalRows(m) ==
    \E r1 \in 0 .. 3, r2 \in 0 .. 3 :
        r1 # r2 /\ \A c \in 0 .. 3 : FEq(Get(m, r1, c), Get(m, r2, c))

IsZeroVec(v) == \A k \in DOMAIN v : FEq(v[k], Zero)

C10_NormalizeZeroVector ==
    (vecOut.op = "normalize" /\ IsZeroVec(vecIn))
    => /\ vecOut.out = vecIn
       /\ \A k \in DOMAIN vecOut.divisors : ~FEq(vecOut.divisors[k], Zero)

(***************************************************************************)
(* C11: every Light that Light::directional or Light::spot returns has a   *)
(* direction of length 1, and every Light that Light::spot returns has     *)
(* inner_angle <= outer_angle.  The constructors normalize the direction,  *)
(* which leaves a zero vector as it is, and store the two angles as they   *)
(* are given, so this fails.                                               *)
(***************************************************************************)
\* v has length 1, to within the resolution directions are kept at
UnitLength(v) ==
    /\ FGe(Dot3(v, v), Q(15, 16))
    /\ FLe(Dot3(v, v), Q(17, 16))

C11_ConstructedLightWellFormed ==
    /\ vecOut.op \in {"Light::directional", "Light::spot"} => UnitLength(vecOut.light.direction)
    /\ vecOut.op = "Light::spot" => FLe(vecOut.light.inner_angle, vecOut.light.outer_angle)

\* the constructors do return a unit direction for every direction that is
\* not the zero vector
C11_NonZeroDirectionMadeUnit ==
    (vecOut.op \in {"Light::directional", "Light::spot"} /\ ~IsZeroVec(vecIn.args.direction))
    => UnitLength(vecOut.light.direction)

(***************************************************************************)
(* C12: the material render uses for a triangle is materials[material_id]  *)
(* when the id is present and below materials.len(), and materials[0]      *)
(* otherwise; every object has at least one material after GameObject::new *)
(* and any add_material calls, so the lookup never fails.                  *)
(***************************************************************************)
\* the entries of the trace of a render for the k-th object that used a material
LitEntries(k) == {j \in DOMAIN rendered[k] : rendered[k][j].outcome = "drawn"}

C12_MaterialLookupNeverFails ==
    /\ \A k \in DOMAIN scene.game_objects : Len(scene.game_objects[k].materials) >= 1
    /\ lastCall.op = "render"
       => \A k \in DOMAIN rendered :
             /\ \A j \in DOMAIN rendered[k] : rendered[k][j].outcome # "no material"
             /\ \A j \in LitEntries(k) :
                   LET obj == scene.game_objects[k]
                       id  == obj.mesh.triangles[rendered[k][j].triangle_index + 1].material_id
                   IN  rendered[k][j].material_index =
                          IF id.some /\ id.id < Len(obj.materials) THEN id.id ELSE 0

\* a triangle whose material id is beyond the three materials of its object
\* has been drawn with materials[0]
C12_Witness ==
    /\ lastCall.op = "render"
    /\ \E k \in DOMAIN rendered : \E j \in LitEntries(k) :
          LET obj == scene.game_objects[k]
              id  == obj.mesh.triangles[rendered[k][j].triangle_index + 1].material_id
          IN  /\ id.some /\ id.id >= Len(obj.materials)
              /\ Len(obj.materials) = MaxMaterials + 1
              /\ rendered[k][j].material_index = 0

(***************************************************************************)
(* C13: move_forward, move_right and move_up leave the look offset         *)
(* target - position of the camera as it was: every call adds one delta to *)
(* the position and to the target.                                         *)
(***************************************************************************)
LookOffset(cam) == Sub3(cam.target, cam.position)

C13_MovesKeepLookOffset ==
    [][lastCall'.op \in {"move_forward", "move_right", "move_up"}
       => /\ LookOffset(scene'.camera) = LookOffset(scene.camera)
          /\ Sub3(scene'.camera.position, scene.camera.position)
                = Sub3(scene'.camera.target, scene.camera.target)]_vars

\* the camera that looked from the origin at (3, 0, 4) has been moved forward
\* off the origin and still looks along (3, 0, 4)
C13_Witness ==
    /\ lastCall.op = "move_forward"
    /\ scene.camera.position # Zero3
    /\ FGt(scene.camera.position[1], Zero)
    /\ LookOffset(scene.camera) = Vec3(I(3), Zero, I(4))

(***************************************************************************)
(* C17: the specular term of LightingSystem::calculate_lighting is raised  *)
(* to the specular power of the material: where the highlight shows, a     *)
(* material whose specular power is not 32 is shaded differently from the  *)
(* same material with specular power 32.  Light::calculate_lighting raises *)
(* to the constant 32 and is not given the material, so this fails.        *)
(***************************************************************************)
\* max(0, normal . halfVector) for the light and the view of a lighting call
HighlightBase(args) ==
    LET d == LightDirection(args.light, args.surface_point)
    IN  FMax(Dot3(args.surface_normal,
                  Round3(Normalize3(Add3(d.light_direction, ViewDirection(args))).out)), Zero)

\* the light reaches the surface, the base of the highlight is strictly
\* between 0 and 1, and no channel of the colour is clamped
HighlightShows(args, color) ==
    /\ ~IsZeroVec(args.surface_normal)
    /\ ~LightDirection(args.light, args.surface_point).dark
    /\ FGt(LightDirection(args.light, args.surface_point).attenuation, Zero)
    /\ FGt(HighlightBase(args), Zero) /\ FLt(HighlightBase(args), One)
    /\ \A i \in 1 .. 3 : FLt(color[i], One)

C17_SpecularPowerOfMaterial ==
    (/\ vecOut.op = "LightingSystem::calculate_lighting"
     /\ ~FEq(vecIn.args.material.specular_power, I(32))
     /\ HighlightShows(vecIn.args, vecOut.out))
    => vecOut.out # calculate_lighting(LightingOf(vecIn.args), vecIn.args.surface_point,
                                       vecIn.args.surface_normal, vecIn.args.camera_position,
                                       [vecIn.args.material EXCEPT !.specular_power = I(32)])

(***************************************************************************)
(* C18: every channel of the colour LightingSystem::calculate_lighting     *)
(* returns lies in [0, 1].  For a normal of length zero the function       *)
(* returns the ambient term before the clamp, so this fails.               *)
(***************************************************************************)
C18_LitColorInUnitRange ==
    vecOut.op = "LightingSystem::calculate_lighting"
    => \A i \in 1 .. 3 : FGe(vecOut.out[i], Zero) /\ FLe(vecOut.out[i], One)

\* with a normal that is not of length zero the channels do lie in [0, 1]
C18_ClampedForProperNormal ==
    (vecOut.op = "LightingSystem::calculate_lighting" /\ ~IsZeroVec(vecIn.args.surface_normal))
    => \A i \in 1 .. 3 : FGe(vecOut.out[i], Zero) /\ FLe(vecOut.out[i], One)

(***************************************************************************)
(* C19: a point light gives <<0, 0>> (no diffuse and no specular           *)
(* intensity) to every surface point whose distance from the light is the  *)
(* range of the light or more, whatever the normal and the view direction. *)
(***************************************************************************)
LightDistance(args) == Length3(Sub3(args.light.position, args.surface_point))

C19_PointLightDarkBeyondRange ==
    (/\ vecOut.op = "Light::calculate_lighting"
     /\ vecIn.args.light.light_type = "Point"
     /\ FGe(LightDistance(vecIn.args), vecIn.args.light.range))
    => vecOut.out = <<Zero, Zero>>

\* a surface that faces a point light from a distance equal to its range, 2
C19_Witness ==
    /\ vecOut.op = "Light::calculate_lighting"
    /\ vecIn.args.light.light_type = "Point"
    /\ vecIn.args.light.range = I(2)
    /\ FEq(LightDistance(vecIn.args), vecIn.args.light.range)
    /\ FGt(Dot3(vecIn.args.surface_normal,
                Sub3(vecIn.args.light.position, vecIn.args.surface_point)), Zero)
    /\ vecOut.out = <<Zero, Zero>>

(***************************************************************************)
(* C20: a spot light gives nothing to a surface point whose angle from the *)
(* axis of the spot is more than outer_angle, and to a surface point whose *)
(* angle is less than inner_angle it gives what a point light of the same  *)
(* position, colour, intensity and range gives.  The angle is the acos of  *)
(* a dot product of two normalized vectors, which for a point on the axis  *)
(* can come out above 1: the angle is then NaN and so is what the light    *)
(* gives, so this fails.                                                   *)
(***************************************************************************)
\* the vector from the light to the surface point, and the cosine of its angle
\* from the axis of the spot, squared, times the squared lengths of the two
ToSurface(args) == Sub3(args.surface_point, args.light.position)

AlongAxis(args) == Dot3(ToSurface(args), args.light.direction)

SquaredLengths(args) ==
    FMul(Dot3(ToSurface(args), ToSurface(args)),
         Dot3(args.light.direction, args.light.direction))

\* the angle from the axis is below a, and above a, for 0 < a < pi / 2
AngleBelow(args, a) ==
    /\ FGt(AlongAxis(args), Zero)
    /\ FGt(FMul(AlongAxis(args), AlongAxis(args)),
           FMul(FMul(FCos(a), FCos(a)), SquaredLengths(args)))

AngleAbove(args, a) ==
    \/ FLe(AlongAxis(args), Zero)
    \/ FLt(FMul(AlongAxis(args), AlongAxis(args)),
           FMul(FMul(FCos(a), FCos(a)), SquaredLengths(args)))

\* Light::point with the position, colour, intensity and range of a light
PointLightOf(light) == Light_point(light.position, light.color, light.intensity, light.range)

C20_SpotLightCone ==
    (vecOut.op = "Light::calculate_lighting" /\ vecIn.args.light.light_type = "Spot")
    => /\ AngleAbove(vecIn.args, vecIn.args.light.outer_angle) => vecOut.out = <<Zero, Zero>>
       /\ AngleBelow(vecIn.args, vecIn.args.light.inner_angle)
          => vecOut.out = Light_calculate_lighting(PointLightOf(vecIn.args.light),
                                                   vecIn.args.surface_point,
                                                   vecIn.args.surface_normal,
                                                   ViewDirection(vecIn.args))

(***************************************************************************)
(* What a render leaves in the buffers                                     *)
(***************************************************************************)
\* every entry of the trace of the last render, as <<object, triangle>>
Entries == {<<k, j>> : k \in DOMAIN rendered, j \in 1 .. 12} \cap
           UNION {{<<k, j>> : j \in DOMAIN rendered[k]} : k \in DOMAIN rendered}

Entry(e) == rendered[e[1]][e[2]]

\* the draw_triangle calls from the k-th on, made one after another on r
RECURSIVE Replay(_, _, _)
Replay(calls, k, r) ==
    IF k > Len(calls) THEN r ELSE Replay(calls, k + 1, draw_triangle(r, calls[k].t))

\* the buffers hold the background and, on it, the triangles of the entries
\* that were drawn, and nothing else
OnlyDrawnEntriesShow ==
    LET r == Replay(history, 1, clear(NewRenderer, Background))
    IN  /\ Len(history) = Cardinality({e \in Entries : Entry(e).outcome = "drawn"})
        /\ framebuffer = r.fb
        /\ z_buffer = r.zb

(***************************************************************************)
(* C7: render clears the renderer before it draws, so the buffers after a  *)
(* render are those a new Renderer would hold after rendering the same     *)
(* scene, whatever they held before; with no game objects every pixel is   *)
(* the background 0xFF111111 and every depth +infinity.                    *)
(***************************************************************************)
C7_RenderStartsFromClearedBuffers ==
    lastCall.op = "render"
    => /\ framebuffer = render(scene, NewRenderer).r.fb
       /\ z_buffer = render(scene, NewRenderer).r.zb
       /\ scene.game_objects = <<>>
          => \A i \in DOMAIN framebuffer : framebuffer[i] = Background /\ z_buffer[i] = PosInf

\* a render of a scene with an object, into buffers that had been drawn on,
\* that left a pixel at the background and a pixel of the object
C7_Witness ==
    /\ lastCall.op = "render"
    /\ lastCall.n > 0
    /\ scene.game_objects # <<>>
    /\ \E i \in DOMAIN framebuffer : framebuffer[i] = Background /\ z_buffer[i] = PosInf
    /\ \E i \in DOMAIN framebuffer : framebuffer[i] # Background

(***************************************************************************)
(* C14: render draws a triangle only if the three NDC coordinates of each  *)
(* of its vertices lie in [-1, 1] (and w is not zero).  project_to_screen  *)
(* tests x and y only, so a triangle beyond the far plane is drawn and     *)
(* this fails.                                                             *)
(***************************************************************************)
InNDC(c) == FGe(c, I(-1)) /\ FLe(c, One)

C14_DrawnOnlyInsideNDC ==
    lastCall.op = "render"
    => \A e \in Entries :
          Entry(e).outcome = "drawn"
          => \A v \in 1 .. 3 : \A i \in 1 .. 3 : InNDC(Entry(e).ndc[v][i])

\* x and y of every vertex of a triangle that is drawn do lie in [-1, 1]
C14_DrawnInsideNDCxy ==
    lastCall.op = "render"
    => \A e \in Entries :
          Entry(e).outcome = "drawn"
          => \A v \in 1 .. 3 : \A i \in 1 .. 2 : InNDC(Entry(e).ndc[v][i])

(***************************************************************************)
(* C15: render makes no draw_triangle call for a triangle with a vertex    *)
(* whose camera-space z is >= 0: the triangle is dropped whole and leaves  *)
(* the buffers as they are.                                                *)
(***************************************************************************)
C15_NothingDrawnBehindCamera ==
    lastCall.op = "render"
    => /\ \A e \in Entries :
             (/\ Entry(e).outcome # "culled"
              /\ \E v \in 1 .. 3 : FGe(Entry(e).camera_z[v], Zero))
             => Entry(e).outcome # "drawn"
       /\ OnlyDrawnEntriesShow

\* a triangle with one vertex on the camera plane, one behind it and one in
\* front of it has been dropped, and the buffers hold the background alone
C15_Witness ==
    /\ lastCall.op = "render"
    /\ \E e \in Entries :
          /\ Entry(e).outcome = "behind"
          /\ \E v \in 1 .. 3 : FEq(Entry(e).camera_z[v], Zero)
          /\ \E v \in 1 .. 3 : FGt(Entry(e).camera_z[v], Zero)
          /\ \E v \in 1 .. 3 : FLt(Entry(e).camera_z[v], Zero)
    /\ \A i \in DOMAIN framebuffer : framebuffer[i] = Background /\ z_buffer[i] = PosInf

(***************************************************************************)
(* C16: render culls a triangle exactly when                               *)
(* world_normal . (cameraPosition - centroid) < 0; with a product >= 0,    *)
(* zero included, the triangle goes on to the camera-space tests; a culled *)
(* triangle is not drawn.                                                  *)
(***************************************************************************)
TowardsCamera(entry) ==
    Dot3(entry.world_normal, Sub3(scene.camera.position, entry.triangle_center))

C16_CulledExactlyWhenFacingAway ==
    lastCall.op = "render"
    => /\ \A e \in Entries :
             Entry(e).outcome = "culled" <=> FLt(TowardsCamera(Entry(e)), Zero)
       /\ OnlyDrawnEntriesShow

\* of one object a triangle has been culled and another drawn, or a
\* triangle seen exactly edge-on has gone on to the camera-space tests
C16_Witness ==
    /\ lastCall.op = "render"
    /\ \E e \in Entries : Entry(e).outcome = "culled"
    /\ \E e \in Entries : Entry(e).outcome = "drawn"

C16_WitnessEdgeOn ==
    /\ lastCall.op = "render"
    /\ \E e \in Entries : Entry(e).outcome # "culled" /\ FEq(TowardsCamera(Entry(e)), Zero)

(***************************************************************************)
(* C21: over any sequence of add_light, add_cube_at, add_triangle_at,      *)
(* set_camera_position, set_camera_target, update and render the list of   *)
(* lights never shrinks and is never reordered: add_light appends exactly  *)
(* one light at the end, every other call leaves the list as it is.        *)
(***************************************************************************)
LightsAfter(old, new, op) ==
    IF op = "add_light"
    THEN /\ Len(new) = Len(old) + 1
         /\ SubSeq(new, 1, Len(old)) = old
    ELSE new = old

C21_LightsOnlyAppended ==
    [][LightsAfter(scene.lighting.lights, scene'.lighting.lights, lastCall'.op)]_vars

\* two different lights have been added, and the scene has been updated and
\* rendered since
C21_Witness ==
    /\ Len(scene.lighting.lights) = 2
    /\ scene.lighting.lights[1] # scene.lighting.lights[2]
    /\ Len(vecIn) > 0
    /\ lastCall.op = "render"

(***************************************************************************)
(* C29: after update(dt_1) .. update(dt_n) rotation_time is the sum of the *)
(* dt_k; an update gives the object at index i the rotation                *)
(* y = rotation_time + 0.5 i and x = 0.3 rotation_time + 0.5 i and leaves  *)
(* its position, scale, rotation.z, mesh and materials, the camera, the    *)
(* lights and the number and order of the objects as they are.             *)
(***************************************************************************)
RECURSIVE SumFrom(_, _)
SumFrom(dts, k) == IF k > Len(dts) THEN Zero ELSE FAdd(dts[k], SumFrom(dts, k + 1))

AnimatedAs(old, new, i, rotation_time) ==
    /\ FEq(new.rotation[2], FAdd(rotation_time, Q(i, 2)))
    /\ FEq(new.rotation[1], FAdd(FMul(Q(3, 10), rotation_time), Q(i, 2)))
    /\ new.rotation[3] = old.rotation[3]
    /\ new.position = old.position
    /\ new.scale = old.scale
    /\ new.mesh = old.mesh
    /\ new.materials = old.materials

UpdateStep(old, new) ==
    /\ Len(new.game_objects) = Len(old.game_objects)
    /\ \A k \in DOMAIN old.game_objects :
          AnimatedAs(old.game_objects[k], new.game_objects[k], k - 1, new.rotation_time)
    /\ new.camera = old.camera
    /\ new.lighting = old.lighting

C29_UpdateAnimates ==
    /\ [](FEq(scene.rotation_time, SumFrom(vecIn, 1)))
    /\ [][lastCall'.op = "update" => UpdateStep(scene, scene')]_vars

\* two updates with different delta times have been made on a scene that
\* holds an object
C29_Witness ==
    /\ lastCall.op = "update"
    /\ Len(vecIn) = 2
    /\ vecIn[1] # vecIn[2]
    /\ Len(scene.game_objects) > 0

(***************************************************************************)
(* C24: get_model_matrix is Translation * RotationZ * RotationY *          *)
(* RotationX * Scale: a point is scaled, then rotated about X, about Y and *)
(* about Z, then translated; with scale (1,1,1) and no rotation every      *)
(* point p goes to p + position.                                           *)
(***************************************************************************)
\* the point scaled, rotated about X, Y and Z and translated, one
\* transformation after the other
StepByStep(obj, p) ==
    multiply_point(translation(obj.position[1], obj.position[2], obj.position[3]),
      multiply_point(rotation_z(obj.rotation[3]),
        multiply_point(rotation_y(obj.rotation[2]),
          multiply_point(rotation_x(obj.rotation[1]),
            multiply_point(scale(obj.scale[1], obj.scale[2], obj.scale[3]), p)))))

\* the entries of the model matrix are rounded to 1 / VecScale each: the
\* image of a point of size up to 2 is within 1 / 32 of the exact image
Near(a, b) == \A i \in 1 .. 3 : FLe(FAbs(FSub(a[i], b[i])), Q(1, 32))

C24_ModelMatrixOrder ==
    vecOut.op = "multiply_point"
    => /\ Near(vecOut.out, StepByStep(vecIn.obj, vecIn.point))
       /\ (vecIn.obj.scale = Vec3(One, One, One) /\ vecIn.obj.rotation = Zero3)
          => vecOut.out = Add3(vecIn.point, vecIn.obj.position)

\* a point has been transformed for an object that is moved, scaled unevenly
\* and rotated about all three axes by different angles
C24_Witness ==
    /\ vecOut.op = "multiply_point"
    /\ vecIn.obj.position # Zero3
    /\ vecIn.obj.scale # Vec3(One, One, One)
    /\ vecIn.obj.rotation[1] # Zero
    /\ vecIn.obj.rotation[2] # vecIn.obj.rotation[1]
    /\ vecIn.obj.rotation[3] # Zero
    /\ vecIn.obj.rotation[3] # vecIn.obj.rotation[2]

(***************************************************************************)
(* C23: draw_line(x0, y0, x1, y1) terminates for every pair of integer     *)
(* endpoints, visits (x0, y0) first and (x1, y1) last, calls set_pixel     *)
(* max(|x1 - x0|, |y1 - y0|) + 1 times, moves by at most one pixel in each *)
(* axis per pass and never leaves the rectangle the endpoints span.        *)
(***************************************************************************)
Between(v, a, b) == (a <= v /\ v <= b) \/ (b <= v /\ v <= a)

OneApart(a, b) == a = b \/ (a < MaxI32 /\ b = a + 1) \/ (a > MinI32 /\ b = a - 1)

\* both coordinates of both endpoints are on the screen or one step off it
OnScreenLine(a) == {a.x0, a.x1} \subseteq Xs /\ {a.y0, a.y1} \subseteq Ys

Longest(a) == IF Abs(a.x1 - a.x0) > Abs(a.y1 - a.y0) THEN Abs(a.x1 - a.x0) ELSE Abs(a.y1 - a.y0)

LineWalk(a, walk) ==
    /\ walk.l.status # "panicked"
    /\ walk.visited # <<>> => walk.visited[1] = <<a.x0, a.y0>>
    /\ \A k \in DOMAIN walk.visited :
          /\ Between(walk.visited[k][1], a.x0, a.x1)
          /\ Between(walk.visited[k][2], a.y0, a.y1)
          /\ k > 1 => /\ OneApart(walk.visited[k - 1][1], walk.visited[k][1])
                      /\ OneApart(walk.visited[k - 1][2], walk.visited[k][2])
    /\ OnScreenLine(a)
       => /\ Len(walk.visited) <= Longest(a) + 1
          /\ walk.l.status = "done"
             => /\ Len(walk.visited) = Longest(a) + 1
                /\ walk.visited[Len(walk.visited)] = <<a.x1, a.y1>>

C23_LineWalksBetweenEndpoints ==
    vecOut.op = "draw_line" => LineWalk(vecIn.line, vecOut)

\* for endpoints on the screen or one step off it the walk is as claimed
C23_ScreenLineWalks ==
    (vecOut.op = "draw_line" /\ OnScreenLine(vecIn.line)) => LineWalk(vecIn.line, vecOut)

C23_ScreenLineDone ==
    /\ vecOut.op = "draw_line"
    /\ vecOut.l.status = "done"
    /\ Longest(vecIn.line) = Width + 1
    /\ vecIn.line.y0 # vecIn.line.y1

(***************************************************************************)
(* C27: the depth buffer and the framebuffer agree pixel by pixel:         *)
(* draw_triangle never lowers the depth entry of a pixel without writing   *)
(* the colour of that same pixel, so a depth entry is finite only where    *)
(* draw_triangle wrote the colour since the last clear.  The depth entry   *)
(* is indexed without a bounds test (C1), so this fails.                   *)
(***************************************************************************)
DepthAndColourTogether(t) ==
    \A i \in DOMAIN z_buffer :
       z_buffer'[i] # z_buffer[i] => framebuffer'[i] = t.color

C27_DepthLoweredOnlyWithColour ==
    [][(lastCall'.op = "draw_triangle" /\ ~panicked') => DepthAndColourTogether(lastCall'.t)]_vars

\* a triangle with all three vertices on the screen keeps the two together
C27_OnScreenTogether ==
    [][(lastCall'.op = "draw_triangle" /\ OnScreen(lastCall'.t))
          => (~panicked' /\ DepthAndColourTogether(lastCall'.t))]_vars

(***************************************************************************)
(* C28: between two clears every depth entry is non-increasing; draw_line  *)
(* and set_pixel leave the depth buffer as it is; draw_triangle changes    *)
(* the colour of a pixel only in a step in which the depth stored for that *)
(* pixel strictly decreases.                                               *)
(***************************************************************************)
DepthStep(op) ==
    /\ \A i \in DOMAIN z_buffer : ~FGt(z_buffer'[i], z_buffer[i]) /\ ~IsNaN(z_buffer'[i])
    /\ op \in {"draw_line", "set_pixel"} => z_buffer' = z_buffer
    /\ op = "draw_triangle"
       => \A i \in DOMAIN framebuffer :
             framebuffer'[i] # framebuffer[i] => FLt(z_buffer'[i], z_buffer[i])

C28_DepthOnlyDecreases ==
    [][lastCall'.op \in {"draw_line", "set_pixel", "draw_triangle"} => DepthStep(lastCall'.op)]_vars

\* a line has been drawn across a triangle drawn before it, and a triangle
\* has changed colours drawn before it
C28_Witness ==
    /\ Len(history) = 2
    /\ history[1].op = "draw_triangle"
    /\ \E i \in DOMAIN z_buffer : IsFinite(z_buffer[i]) /\ framebuffer[i] = Blue
    /\ \E i \in DOMAIN z_buffer : IsFinite(z_buffer[i]) /\ framebuffer[i] = history[1].color

(***************************************************************************)
(* C25: the barycentric weights                                            *)
(***************************************************************************)
\* twice the signed area of the triangle a, b, c of pixel centres
GridArea2(a, b, c) == (b[1] - a[1]) * (c[2] - a[2]) - (b[2] - a[2]) * (c[1] - a[1])

NonDegenerate(in) == GridArea2(in.v0, in.v1, in.v2) # 0

\* p lies inside the triangle or on one of its edges: no sub-triangle of p
\* with two of the vertices is turned the other way than the triangle
InsideOrOnEdge(in) ==
    LET area == GridArea2(in.v0, in.v1, in.v2)
    IN  /\ GridArea2(in.p, in.v1, in.v2) * area >= 0
        /\ GridArea2(in.v0, in.p, in.v2) * area >= 0
        /\ GridArea2(in.v0, in.v1, in.p) * area >= 0

UnitWeights ==
    {<<One32, Zero32, Zero32>>, <<Zero32, One32, Zero32>>, <<Zero32, Zero32, One32>>}

SumToOne(bc) == F32Add(F32Add(bc[1], bc[2]), bc[3]) = One32

AtVertex(in) == in.p \in {in.v0, in.v1, in.v2}

\* C25: for every non-degenerate triangle the weights barycentric_coordinates
\* returns sum to 1, are a permutation of (1,0,0), (0,1,0), (0,0,1) at the
\* three vertices, and are all >= 0 (which is the test draw_triangle makes to
\* take a pixel as covered) exactly for the points inside or on an edge
C25_BarycentricWeights ==
    (vecOut.op = "barycentric_coordinates" /\ NonDegenerate(vecIn))
    => /\ SumToOne(vecOut.out)
       /\ AtVertex(vecIn) => vecOut.out \in UnitWeights
       /\ vecOut.inside <=> InsideOrOnEdge(vecIn)

\* C25, the part that holds: a point strictly inside the triangle is taken as
\* covered and a point strictly outside is not
C25_InteriorAndExterior ==
    (vecOut.op = "barycentric_coordinates" /\ NonDegenerate(vecIn))
    => LET area == GridArea2(vecIn.v0, vecIn.v1, vecIn.v2)
           a0 == GridArea2(vecIn.p, vecIn.v1, vecIn.v2) * area
           a1 == GridArea2(vecIn.v0, vecIn.p, vecIn.v2) * area
           a2 == GridArea2(vecIn.v0, vecIn.v1, vecIn.p) * area
       IN  /\ (a0 > 0 /\ a1 > 0 /\ a2 > 0) => vecOut.inside
           /\ (a0 < 0 \/ a1 < 0 \/ a2 < 0) => ~vecOut.inside

(***************************************************************************)
(* C26: the draw_triangle calls of a render stay inside the buffers        *)
(***************************************************************************)
\* the pixels of the bounding box of t that pass the inside test: those
\* draw_triangle indexes the depth buffer at
IndexedPixels(t) ==
    {p \in (MinX(t) .. MaxX(t)) \X (MinY(t) .. MaxY(t)) : Covers(t, p[1], p[2])}

C26_VerticesWithinClosedScreen ==
    lastCall.op = "render"
    => \A e \in Entries :
          Entry(e).outcome = "drawn"
          => \A v \in {Entry(e).t.v0, Entry(e).t.v1, Entry(e).t.v2} :
                /\ FGe(v[1], Zero) /\ FLe(v[1], I(Width))
                /\ FGe(v[2], Zero) /\ FLe(v[2], I(Height))

(***************************************************************************)
(* C22 and C30: the frame loop                                             *)
(***************************************************************************)
\* wndproc has handled a WM_PAINT, and a WM_TIMER, in this step
PaintStep == lastCall'.op = "WM_PAINT" /\ window'.messages = window.messages + 1

TimerStep == lastCall'.op = "WM_TIMER" /\ window'.messages = window.messages + 1

\* C22: in the frame loop every Scene::render is preceded, since the render
\* before it, by exactly one Scene::update, and the framebuffer is copied to
\* the window only after that render, however timer and paint messages
\* interleave
C22_OneUpdateBeforeEveryRender ==
    [][PaintStep => /\ window.updates = 1
                    /\ ~panicked' => window'.display = framebuffer']_vars

\* C22, the part that holds: no render is preceded by more than one update,
\* and what the window shows is the framebuffer of the last render
C22_AtMostOneUpdateAndDisplayRendered ==
    /\ window.updates <= 1
    /\ window.display # <<>> => (window.display = framebuffer /\ rendered # <<>>)

\* the seconds since the tick before (since InputManager::new, for the first)
ElapsedSeconds == Q(window.clock - window.tick_clock, 1000)

\* C30: on every frame-timer tick the time that has passed since the tick
\* before is given to Scene::update, so with time passing rotation_time
\* grows from tick to tick and the rotations of the objects change
C30_TickAdvancesByElapsedTime ==
    [][(TimerStep /\ window.clock > window.tick_clock)
       => /\ FEq(window'.dt, ElapsedSeconds)
          /\ FLt(scene.rotation_time, scene'.rotation_time)
          /\ \A k \in DOMAIN scene.game_objects :
                scene'.game_objects[k].rotation # scene.game_objects[k].rotation]_vars

\* C30, the part that holds: the tick gives Scene::update what get_delta_time
\* returns, and rotation_time grows by it
C30_TickAdvancesByDeltaTime ==
    [][TimerStep => /\ window'.dt = get_delta_time(input)
                    /\ FEq(scene'.rotation_time, FAdd(scene.rotation_time, window'.dt))]_vars
====
